---- MODULE Spec2Model ----
(***************************************************************************)
(* Position ledger (trade.py PositionTracker), trading main loop           *)
(* (trade.py main), and the redemption paths (redeem.py, redeemall.py)     *)
(* with the file lock of redeem_lock.py.                                   *)
(*                                                                         *)
(* Python floats are modelled as a binary floating-point format with       *)
(* FBits significant bits and round-to-nearest-even, the rounding of IEEE  *)
(* 754 doubles at a reduced width.  A float is the integer number of       *)
(* units of 2^-FracBits it stands for; 1.0 is One.                         *)
(***************************************************************************)
EXTENDS Integers, Sequences, FiniteSets, TLC

\* ------------------------------------------------------------------ bounds
FBits == 4
FracBits == 4
MaxOrders == 2
MaxCycles == 2
ContractsSize == 3
MaxFills == 4

\* ------------------------------------------------------- float arithmetic
One == 2 ^ FracBits

Abs(x) == IF x < 0 THEN -x ELSE x

RECURSIVE BitLen(_)
BitLen(n) == IF n = 0 THEN 0 ELSE 1 + BitLen(n \div 2)

\* n/d (d > 0) rounded to the nearest float, ties to the even significand.
FRound(n, d) ==
    LET a    == Abs(n)
        q    == a \div d
        e    == IF BitLen(q) > FBits THEN BitLen(q) - FBits ELSE 0
        step == 2 ^ e
        m    == a \div (d * step)
        r    == a - m * d * step
        up   == \/ 2 * r > d * step
                \/ (2 * r = d * step /\ m % 2 = 1)
        mag  == (IF up THEN m + 1 ELSE m) * step
    IN  IF n < 0 THEN -mag ELSE mag

FAdd(a, b) == FRound(a + b, 1)
FSub(a, b) == FRound(a - b, 1)
FMul(a, b) == FRound(a * b, One)
FDiv(a, b) == IF b < 0 THEN FRound(-(a * One), -b) ELSE FRound(a * One, b)

\* ------------------------------------------------------------ sequences
Range(s) == {s[i] : i \in DOMAIN s}

\* list.remove(x): drops the first element equal to x
RemoveFirst(s, x) ==
    IF x \notin Range(s) THEN s
    ELSE LET i == CHOOSE k \in DOMAIN s : s[k] = x /\ \A j \in 1..(k-1) : s[j] # x
         IN  SubSeq(s, 1, i - 1) \o SubSeq(s, i + 1, Len(s))

\* ---------------------------------------------------- PositionTracker
NewTracker ==
    [open_positions    |-> <<>>,
     closed_trades     |-> <<>>,
     session_trades    |-> 0,
     session_wins      |-> 0,
     session_pnl       |-> 0,
     current_market_id |-> 0,
     up_total_cost     |-> 0,
     up_total_size     |-> 0,
     down_total_cost   |-> 0,
     down_total_size   |-> 0]

NewPosition(side, price, size, token_id, trade_id) ==
    LET cost   == size
        shares == IF price > 0 THEN FDiv(cost, price) ELSE 0
    IN  [side |-> side, price |-> price, size |-> size, cost |-> cost,
         shares |-> shares, token_id |-> token_id, trade_id |-> trade_id,
         status |-> "OPEN", sale_price |-> 0, profit |-> 0]

add_open_position(t, side, price, size, token_id, trade_id) ==
    LET position == NewPosition(side, price, size, token_id, trade_id)
    IN  [t EXCEPT
           !.open_positions  = Append(@, position),
           !.session_trades  = @ + 1,
           !.up_total_cost   = IF side = "UP" THEN FAdd(@, position.cost) ELSE @,
           !.up_total_size   = IF side = "UP" THEN FAdd(@, position.shares) ELSE @,
           !.down_total_cost = IF side = "DOWN" THEN FAdd(@, position.cost) ELSE @,
           !.down_total_size = IF side = "DOWN" THEN FAdd(@, position.shares) ELSE @]

remove_failed_position(t, position) ==
    IF position \in Range(t.open_positions)
    THEN [t EXCEPT
           !.open_positions  = RemoveFirst(@, position),
           !.session_trades  = @ - 1,
           !.up_total_cost   = IF position.side = "UP" THEN FSub(@, position.cost) ELSE @,
           !.up_total_size   = IF position.side = "UP" THEN FSub(@, position.shares) ELSE @,
           !.down_total_cost = IF position.side = "DOWN" THEN FSub(@, position.cost) ELSE @,
           !.down_total_size = IF position.side = "DOWN" THEN FSub(@, position.shares) ELSE @]
    ELSE t

get_pnl_scenarios(t) ==
    LET total_cost == FAdd(t.up_total_cost, t.down_total_cost)
    IN  [UP   |-> FSub(t.up_total_size, total_cost),
         DOWN |-> FSub(t.down_total_size, total_cost)]

FMin(a, b) == IF a <= b THEN a ELSE b

get_paired_analysis(t) ==
    LET up_contracts   == t.up_total_size
        down_contracts == t.down_total_size
        paired         == FMin(up_contracts, down_contracts)
        up_paired_cost == IF up_contracts > 0
                          THEN FMul(FDiv(paired, up_contracts), t.up_total_cost) ELSE 0
        dn_paired_cost == IF down_contracts > 0
                          THEN FMul(FDiv(paired, down_contracts), t.down_total_cost) ELSE 0
        paired_cost    == IF paired > 0 THEN FAdd(up_paired_cost, dn_paired_cost) ELSE 0
        paired_payout  == FMul(paired, One)
    IN  [up_contracts     |-> up_contracts,
         down_contracts   |-> down_contracts,
         paired_contracts |-> paired,
         unpaired_up      |-> FSub(up_contracts, paired),
         unpaired_down    |-> FSub(down_contracts, paired),
         paired_cost      |-> paired_cost,
         paired_payout    |-> paired_payout,
         locked_profit    |-> FSub(paired_payout, paired_cost),
         avg_up           |-> IF up_contracts > 0
                              THEN FDiv(t.up_total_cost, up_contracts) ELSE 0,
         avg_down         |-> IF down_contracts > 0
                              THEN FDiv(t.down_total_cost, down_contracts) ELSE 0]

\* the literals 0.98 and 1.00 of get_buy_recommendation, a cent being a PriceTick
GreenBelow == FRound(2 ^ FracBits - 2 * (2 ^ (FracBits - 3)), 1)
YellowUpTo == 2 ^ FracBits

\* get_buy_recommendation returns None
NoRecommendation == [side |-> "None"]

\* variant: yellow ends below 1.00
color_of_strict(combined) ==
    IF combined < GreenBelow THEN "green"
    ELSE IF combined < YellowUpTo THEN "yellow"
    ELSE "red"

\* "if combined < 0.98 ... elif combined <= 1.00 ... else"
color_of(combined) ==
    IF combined < GreenBelow THEN "green"
    ELSE IF combined <= YellowUpTo THEN "yellow"
    ELSE "red"

Recommend(side, contracts, ask, avg) ==
    LET combined == FAdd(avg, ask)
    IN  [side           |-> side,
         contracts      |-> contracts,
         price          |-> ask,
         combined_price |-> combined,
         add_cost       |-> FMul(contracts, ask),
         lock_profit    |-> FMul(contracts, FSub(2 ^ FracBits, combined)),
         color          |-> color_of(combined)]

get_buy_recommendation(t, current_up_ask, current_down_ask) ==
    LET analysis == get_paired_analysis(t)
    IN  IF analysis.unpaired_up > 0 /\ current_down_ask > 0
        THEN Recommend("DOWN", analysis.unpaired_up, current_down_ask, analysis.avg_up)
        ELSE IF analysis.unpaired_down > 0 /\ current_up_ask > 0
        THEN Recommend("UP", analysis.unpaired_down, current_up_ask, analysis.avg_down)
        ELSE NoRecommendation

\* profit of one position sold at sale_price
PositionProfit(pos, sale_price) == FSub(FMul(sale_price, pos.shares), pos.cost)

RECURSIVE SumProfit(_, _)
SumProfit(ps, sale_price) ==
    IF ps = <<>> THEN 0
    ELSE FAdd(SumProfit(SubSeq(ps, 1, Len(ps) - 1), sale_price),
              PositionProfit(ps[Len(ps)], sale_price))

RECURSIVE CountWins(_, _)
CountWins(ps, sale_price) ==
    IF ps = <<>> THEN 0
    ELSE CountWins(Tail(ps), sale_price)
         + (IF PositionProfit(Head(ps), sale_price) > 0 THEN 1 ELSE 0)

ClosedAt(ps, sale_price) ==
    [i \in DOMAIN ps |->
        [ps[i] EXCEPT !.status = "CLOSED", !.sale_price = sale_price,
                      !.profit = PositionProfit(ps[i], sale_price)]]

\* the value close_all_side_positions returns
close_all_side_profit(t, side, sale_price) ==
    SumProfit(SelectSeq(t.open_positions, LAMBDA p : p.side = side), sale_price)

\* variant: the closed positions stay in open_positions
close_all_side_positions_keeps_open(t, side, sale_price) ==
    LET positions_to_close == SelectSeq(t.open_positions, LAMBDA p : p.side = side)
    IN  IF positions_to_close = <<>> THEN t
        ELSE [t EXCEPT
               !.closed_trades   = @ \o ClosedAt(positions_to_close, sale_price),
               !.session_pnl     = FAdd(@, SumProfit(positions_to_close, sale_price)),
               !.session_wins    = @ + CountWins(positions_to_close, sale_price),
               !.up_total_cost   = IF side = "UP" THEN 0 ELSE @,
               !.up_total_size   = IF side = "UP" THEN 0 ELSE @,
               !.down_total_cost = IF side = "UP" THEN @ ELSE 0,
               !.down_total_size = IF side = "UP" THEN @ ELSE 0]

close_all_side_positions(t, side, sale_price) ==
    LET positions_to_close == SelectSeq(t.open_positions, LAMBDA p : p.side = side)
    IN  IF positions_to_close = <<>> THEN t
        ELSE [t EXCEPT
               !.closed_trades   = @ \o ClosedAt(positions_to_close, sale_price),
               !.open_positions  = SelectSeq(@, LAMBDA p : p.side # side),
               !.session_pnl     = FAdd(@, SumProfit(positions_to_close, sale_price)),
               !.session_wins    = @ + CountWins(positions_to_close, sale_price),
               !.up_total_cost   = IF side = "UP" THEN 0 ELSE @,
               !.up_total_size   = IF side = "UP" THEN 0 ELSE @,
               !.down_total_cost = IF side = "UP" THEN @ ELSE 0,
               !.down_total_size = IF side = "UP" THEN @ ELSE 0]

close_position(t, token_id, won, payout_per_share) ==
    IF \A i \in DOMAIN t.open_positions : t.open_positions[i].token_id # token_id
    THEN t
    ELSE LET i      == CHOOSE k \in DOMAIN t.open_positions :
                          /\ t.open_positions[k].token_id = token_id
                          /\ \A j \in 1..(k-1) : t.open_positions[j].token_id # token_id
             pos    == t.open_positions[i]
             profit == IF won THEN FSub(FMul(payout_per_share, pos.shares), pos.cost)
                       ELSE -pos.cost
         IN  [t EXCEPT
                !.session_wins   = IF won THEN @ + 1 ELSE @,
                !.session_pnl    = FAdd(@, profit),
                !.closed_trades  = Append(@, [pos EXCEPT !.status = "CLOSED", !.profit = profit]),
                !.open_positions = SubSeq(@, 1, i - 1) \o SubSeq(@, i + 1, Len(@))]

set_market_tokens(t, market_id) ==
    [t EXCEPT
       !.current_market_id = market_id,
       !.up_total_cost     = 0,
       !.up_total_size     = 0,
       !.down_total_cost   = 0,
       !.down_total_size   = 0,
       !.session_pnl       = 0]

\* main: "Archive open positions before switching markets"
ArchiveOpenPositions(t) ==
    [t EXCEPT
       !.closed_trades  = @ \o [i \in DOMAIN t.open_positions |->
                                  [t.open_positions[i] EXCEPT
                                     !.status = "PENDING_SETTLE",
                                     !.profit = 0,
                                     !.cost   = FMul(t.open_positions[i].price,
                                                     t.open_positions[i].size)]],
       !.open_positions = <<>>]

\* ------------------------------------------------------------- the state
Sides == {"UP", "DOWN"}
Markets == 1..MaxCycles
AutoProcs == {<<"auto", m>> : m \in Markets}
BatchProc == <<"batch", 0>>
ManualProc == <<"manual", 0>>
Procs == AutoProcs \cup {BatchProc, ManualProc}
NoProc == <<"none", 0>>

VARIABLES
    tracker,              \* trade.py: tracker = PositionTracker()
    mode,                 \* "menu" (launcher), "trading" (trade.main running), or
                          \* "off" (no terminal: the scripts are run from a shell)
    market_data,          \* main: the market being traded (its number)
    position_check_done,  \* main: local flag
    had_positions,        \* main: local flag
    redeem_scheduled,     \* main: local flag
    expiry_handled,       \* markets whose expiry branch the main loop has run
    next_order,           \* next order id the exchange hands out
    live_market,          \* the market of the current 15-minute slot
    clock,                \* time left in the live market: "early" or "window" (last 5 s)
    held_at_close,        \* per market: was an accumulator nonzero at its close_time
    bal,                  \* chain: token balance of the wallet, per market and side
    resolved,             \* chain: "no", or the side the oracle reported as winner
    redeemed,             \* chain: a redemption of the market has confirmed
    neg_risk_flag,        \* per market: its negRisk field as the APIs report it
    price_state,          \* PriceState: age class of each feed's last update, warm-up flag,
                          \* where the quoted asks come from
    notifier,             \* TelegramNotifier: its queue, dropped_count and the callers in notify
    pids,                 \* .trade.pid and the processes started as trade.py
    streams,              \* the feed threads, stop_event and shutdown_requested
    lock_holder,          \* flock on /tmp/redeem.lock: the handle holding it
    lock_file,            \* content of /tmp/redeem.lock: NoProc (empty) or a pid
    proc                  \* per redeeming thread/process: its locals and position

mainVars == <<mode, market_data, position_check_done, had_positions,
              redeem_scheduled, expiry_handled, next_order>>
timeVars == <<live_market, clock, held_at_close>>
feedVars == <<price_state>>
outerVars == <<notifier>>
pidVars == <<pids>>
streamVars == <<streams>>
chainVars == <<bal, resolved, redeemed, neg_risk_flag>>
lockVars == <<lock_holder, lock_file>>
vars == <<tracker, mainVars, timeVars, feedVars, outerVars, pidVars, streamVars, chainVars, lockVars, proc>>

\* ------------------------------------------------ trade.py .trade.pid
\* the processes started as trade.py, by their pid
MaxProcesses == 3
TradePids == 1..MaxProcesses

\* no PID file (0), no process started yet
NoPids == [file |-> 0, at |-> [p \in TradePids |-> "off"]]

\* ------------------------------------------------ logger.py TelegramNotifier
\* the threads that call add_message: the main loop and a stream callback
NotifyThreads == {"main", "stream"}

\* __init__: an empty Queue, dropped_count = 0. "texts" numbers the calls of
\* notify, "full_seen" counts the calls whose put_nowait raised Full.
NewNotifier ==
    [queue |-> <<>>, dropped_count |-> 0, texts |-> 0, full_seen |-> 0,
     at |-> [th \in NotifyThreads |-> "idle"],
     loaded |-> [th \in NotifyThreads |-> 0]]

\* ------------------------------------------------ trade.py feed threads
\* where a run_ws thread is: at the test at the top of its loop, inside
\* run_forever, after run_forever has returned, in time.sleep(2)
LivePcs == {"top", "connected", "after", "sleep"}

\* no feed thread started (before main, or in the redeem tools)
NoStreams ==
    [stop_event |-> FALSE, shutdown_requested |-> FALSE,
     book |-> "none", index |-> "none", old_book |-> {}, old_index |-> {},
     last_exit |-> "none"]

\* both feeds connected, in the middle of a trading session
RunningStreams == [NoStreams EXCEPT !.book = "connected", !.index = "connected"]

\* the threads a start leaves behind: the thread of an earlier start that has
\* not exited is still running its loop
Superseded(pc, old) == IF pc = "none" THEN old ELSE old \cup {pc}

\* variant: start keeps the stop event as it finds it
feed_start_keeps_event(s) ==
    [s EXCEPT !.old_book = Superseded(s.book, s.old_book), !.book = "top",
              !.last_exit = "none"]

\* PolymarketFeedManager.start: stop_event.clear(), a new thread runs run_ws
feed_start(s) ==
    [s EXCEPT !.stop_event = FALSE,
              !.old_book = Superseded(s.book, s.old_book), !.book = "top",
              !.last_exit = "none"]

\* start_chainlink_ws: a new thread runs run_ws
start_chainlink_ws(s) ==
    [s EXCEPT !.old_index = Superseded(s.index, s.old_index), !.index = "top",
              !.last_exit = "none"]

\* PolymarketFeedManager.stop: stop_event.set(), ws_app.close(), and
\* thread.join(timeout=2), which the thread's exit ends (joined) or the
\* timeout does
feed_stop(s, joined) ==
    [s EXCEPT !.stop_event = TRUE,
              !.book = IF joined THEN "none"
                       ELSE IF @ = "connected" THEN "after" ELSE @,
              !.last_exit = "none"]

\* switch_market: stop, reset the prices, sleep 0.5, start
switch_market(s, joined) == feed_start(feed_stop(s, joined))

\* cleanup_on_exit: shutdown_requested = True, polymarket_feed.stop()
cleanup_on_exit(s, joined) == feed_stop([s EXCEPT !.shutdown_requested = TRUE], joined)

\* main: shutdown_requested = False, then both feeds are started
main_start_feeds(s) ==
    feed_start(start_chainlink_ws([s EXCEPT !.shutdown_requested = FALSE]))

NewProc ==
    [pc |-> "idle", market |-> 0, up_balance |-> 0, down_balance |-> 0,
     closed |-> FALSE, todo |-> <<>>, attempt |-> 0, result |-> "none",
     nonce_read |-> FALSE, nonce_attempt |-> 0, sent |-> FALSE, after_redeemed |-> FALSE,
     fd |-> FALSE, acquired |-> FALSE, lock_failed |-> FALSE, via |-> "none"]

NoBalance == [s \in Sides |-> 0]

\* where a finished call goes: redeemall's loop takes the next position
DonePc(p) == IF p = BatchProc THEN "rp_returned" ELSE "done"

\* a call returns: its locals are gone, its outcome stays
Returned(r, p, res) ==
    [r EXCEPT !.pc = DonePc(p), !.result = res, !.market = 0, !.up_balance = 0,
              !.down_balance = 0, !.closed = FALSE, !.via = "none", !.nonce_attempt = 0]

\* ------------------------------------------------------------ RedeemLock
\* redeem_lock.py acquire(): open(LOCK_FILE, 'w') truncates the file
LockOpen(p, next_pc) ==
    /\ lock_file' = NoProc
    /\ proc' = [proc EXCEPT ![p].fd = TRUE, ![p].lock_failed = FALSE, ![p].pc = next_pc]
    /\ UNCHANGED lock_holder

\* acquire(): one flock(LOCK_EX | LOCK_NB) attempt that succeeds
LockTrySuccess(p, next_pc) ==
    /\ lock_holder = NoProc
    /\ lock_holder' = p
    /\ lock_file' = p
    /\ proc' = [proc EXCEPT ![p].acquired = TRUE, ![p].pc = next_pc, ![p].attempt = 1]

\* variant: the elapsed time never reaches the timeout
LockTryFail_no_timeout(p) ==
    /\ lock_holder # NoProc
    /\ proc' = [proc EXCEPT ![p].lock_failed = FALSE]
    /\ UNCHANGED lockVars

\* acquire(): one flock attempt that fails, then sleep(0.5)
LockTryFail(p) ==
    /\ lock_holder # NoProc
    /\ ~proc[p].lock_failed
    /\ proc' = [proc EXCEPT ![p].lock_failed = TRUE]
    /\ UNCHANGED lockVars

\* variant: release() unlocks the file whoever holds the lock
ReleaseOf_any(r, holder, p) == NoProc

\* release() on handle r of p: flock(LOCK_UN) and close() if self._fd and
\* self._acquired; the holder of the flock afterwards
ReleaseOf(r, holder, p) ==
    IF r.fd /\ r.acquired /\ holder = p THEN NoProc ELSE holder

\* variant: release() leaves the flock in place
ReleasedHolder_kept(p) == lock_holder

\* release(): the lock this handle leaves behind, and the handle afterwards
ReleasedHolder(p) == ReleaseOf(proc[p], lock_holder, p)

Released(r) ==
    IF r.fd /\ r.acquired THEN [r EXCEPT !.fd = FALSE, !.acquired = FALSE] ELSE r

\* a return from inside the try block: result, then finally: lock.release()
ReturnLocked(p, res) ==
    /\ proc' = [proc EXCEPT ![p] = Returned(Released(proc[p]), p, res)]
    /\ lock_holder' = ReleasedHolder(p)
    /\ UNCHANGED lock_file

\* a return before any lock is taken
ReturnEarly(p, res) ==
    /\ proc' = [proc EXCEPT ![p] = Returned(@, p, res)]
    /\ UNCHANGED lockVars

\* acquire() gave up (timeout, or open() raised): the handle holds nothing
AcquireGaveUp(p, res) ==
    /\ proc' = [proc EXCEPT ![p] = Returned([@ EXCEPT !.fd = FALSE], p, res)]
    /\ UNCHANGED lockVars

\* ------------------------------------------------------------- the chain
\* get_token_balance: the balance, or 0 when the RPC call raises
BalanceReads(m, side) == {bal[m][side], 0}

\* check_oracle_resolution: payoutDenominator > 0, or False when the call raises
OracleReads(m) == {resolved[m] # "no", FALSE}

\* the market's negRisk field in an API answer: true, false, or not there
FlagValues == {"true", "false", "missing"}

\* trade.py find_active_market: market.get("negRisk", True), handed on by
\* main as market_data.get("neg_risk", True) to redeem_specific(neg_risk=...)
find_active_market_neg_risk(flag) == IF flag = "missing" THEN TRUE ELSE flag = "true"

\* redeem.py get_market_info: market.get("negRisk", False)
get_market_info_neg_risk(flag) == IF flag = "missing" THEN FALSE ELSE flag = "true"

\* redeemall.py find_all_positions: pos.get("negativeRisk", False)
find_all_positions_neg_risk(flag) == IF flag = "missing" THEN FALSE ELSE flag = "true"

\* "if neg_risk:" the NegRisk adapter's redeemPositions, else the CTF's
Dispatch(neg_risk) == IF neg_risk THEN "adapter" ELSE "ctf"

\* a mined redemption with status 1 pays out and burns the wallet's tokens
MinedOk(m) ==
    /\ bal' = [bal EXCEPT ![m] = NoBalance]
    /\ redeemed' = [redeemed EXCEPT ![m] = TRUE]
    /\ UNCHANGED <<resolved, neg_risk_flag>>

\* -------------------------------------------- redeem.py redeem_specific
max_attempts == 3

\* start of a call: the per-call bookkeeping
Entered(r, m, up, down) ==
    [r EXCEPT !.market = m, !.up_balance = up, !.down_balance = down,
              !.attempt = 0, !.result = "none", !.nonce_read = FALSE, !.nonce_attempt = 0,
              !.sent = FALSE,
              !.after_redeemed = redeemed[m]]

\* trade.py auto_redeem: after sleep(180) the thread calls redeem_specific
CallRedeemSpecific(p) ==
    /\ p \in AutoProcs
    /\ proc[p].pc = "sleeping"
    /\ proc' = [proc EXCEPT ![p] = [NewProc EXCEPT !.pc = "rs_entry"]]
    /\ UNCHANGED <<tracker, mainVars, timeVars, feedVars, outerVars, pidVars, streamVars, chainVars, lockVars>>

\* balances are read first; both zero: "No tokens to redeem"
RsBalance(p) ==
    /\ proc[p].pc = "rs_entry"
    /\ \E up \in BalanceReads(p[2], "UP"), down \in BalanceReads(p[2], "DOWN") :
         LET r == Entered(proc[p], p[2], up, down)
         IN  proc' = [proc EXCEPT ![p] =
                        IF up = 0 /\ down = 0 THEN Returned(r, p, "no_tokens")
                        ELSE [r EXCEPT !.pc = "rs_oracle"]]
    /\ UNCHANGED <<tracker, mainVars, timeVars, feedVars, outerVars, pidVars, streamVars, chainVars, lockVars>>

RsOracle(p) ==
    /\ proc[p].pc = "rs_oracle"
    /\ \E is_resolved \in OracleReads(proc[p].market) :
         proc' = [proc EXCEPT ![p] =
                    IF is_resolved THEN [@ EXCEPT !.pc = "rs_lock_open"]
                    ELSE Returned(@, p, "not_resolved")]
    /\ UNCHANGED <<tracker, mainVars, timeVars, feedVars, outerVars, pidVars, streamVars, chainVars, lockVars>>

RsLockOpen(p) ==
    /\ proc[p].pc = "rs_lock_open"
    /\ \/ LockOpen(p, "rs_lock_try")
       \/ AcquireGaveUp(p, "contended")
    /\ UNCHANGED <<tracker, mainVars, timeVars, feedVars, outerVars, pidVars, streamVars, chainVars>>

RsLockTry(p) ==
    /\ proc[p].pc = "rs_lock_try"
    /\ LockTrySuccess(p, "rs_nonce")
    /\ UNCHANGED <<tracker, mainVars, timeVars, feedVars, outerVars, pidVars, streamVars, chainVars>>

RsLockBusy(p) ==
    /\ proc[p].pc = "rs_lock_try"
    /\ LockTryFail(p)
    /\ UNCHANGED <<tracker, mainVars, timeVars, feedVars, outerVars, pidVars, streamVars, chainVars>>

\* variant: the timed-out acquire is ignored and the attempt loop starts anyway
RsLockContended_proceeds(p) ==
    /\ proc[p].pc = "rs_lock_try"
    /\ proc[p].lock_failed
    /\ proc' = [proc EXCEPT ![p].pc = "rs_nonce", ![p].attempt = 1]
    /\ UNCHANGED <<tracker, mainVars, timeVars, feedVars, outerVars, pidVars, streamVars, chainVars, lockVars>>

\* "if not lock.acquire(): ... return False" after the 120 s timeout
RsLockContended(p) ==
    /\ proc[p].pc = "rs_lock_try"
    /\ proc[p].lock_failed
    /\ AcquireGaveUp(p, "contended")
    /\ UNCHANGED <<tracker, mainVars, timeVars, feedVars, outerVars, pidVars, streamVars, chainVars>>

\* variant: the retry test lets one attempt too many through
RsAttemptFailed_one_more(p) ==
    IF proc[p].attempt <= max_attempts
    THEN /\ proc' = [proc EXCEPT ![p].attempt = @ + 1, ![p].pc = "rs_nonce"]
         /\ UNCHANGED lockVars
    ELSE ReturnLocked(p, "failed")

\* variant: the retry sends again with the nonce and gas price it has
RsAttemptFailed_keeps_nonce(p) ==
    IF proc[p].attempt < max_attempts
    THEN /\ proc' = [proc EXCEPT ![p].attempt = @ + 1,
                                   ![p].pc = IF proc[p].nonce_attempt > 0 THEN "rs_send"
                                             ELSE "rs_nonce"]
         /\ UNCHANGED lockVars
    ELSE ReturnLocked(p, "failed")

\* except Exception: retry after retry_delay while attempt < max_attempts
RsAttemptFailed(p) ==
    IF proc[p].attempt < max_attempts
    THEN /\ proc' = [proc EXCEPT ![p].attempt = @ + 1, ![p].pc = "rs_nonce"]
         /\ UNCHANGED lockVars
    ELSE ReturnLocked(p, "failed")

\* get_transaction_count and gas_price, read inside the attempt
RsNonce(p) ==
    /\ proc[p].pc = "rs_nonce"
    /\ \/ /\ proc' = [proc EXCEPT ![p].nonce_read = TRUE, ![p].pc = "rs_send",
                                    ![p].nonce_attempt = proc[p].attempt,
                                    ![p].via = Dispatch(find_active_market_neg_risk(
                                                           neg_risk_flag[proc[p].market]))]
          /\ UNCHANGED lockVars
       \/ RsAttemptFailed(p)
    /\ UNCHANGED <<tracker, mainVars, timeVars, feedVars, outerVars, pidVars, streamVars, chainVars>>

RsSend(p) ==
    /\ proc[p].pc = "rs_send"
    /\ \/ /\ proc' = [proc EXCEPT ![p].sent = TRUE, ![p].pc = "rs_wait"]
          /\ UNCHANGED lockVars
       \/ RsAttemptFailed(p)
    /\ UNCHANGED <<tracker, mainVars, timeVars, feedVars, outerVars, pidVars, streamVars, chainVars>>

\* wait_for_transaction_receipt: status 1, status 0 (revert), or timeout
RsReceipt(p) ==
    /\ proc[p].pc = "rs_wait"
    /\ \/ /\ MinedOk(proc[p].market)
          /\ ReturnLocked(p, "confirmed")
       \/ /\ RsAttemptFailed(p)
          /\ UNCHANGED chainVars
    /\ UNCHANGED <<tracker, mainVars, timeVars, feedVars, outerVars, pidVars, streamVars>>

\* ----------------------------------------------------- trade.py main loop
\* the loop reads keys for the live market, and for an expired one once its
\* expiry has been handled and no new market was found
KeysRead ==
    /\ mode = "trading"
    /\ market_data = live_market \/ market_data \in expiry_handled

\* the main thread is not inside redeemall.main (key "m")
MainFree == proc[BatchProc].pc \in {"idle", "done"}

\* top of the loop: positions are checked once, in the last 5 s before close
InWindow ==
    /\ ~position_check_done
    /\ market_data = live_market
    /\ clock = "window"

CheckedDone == position_check_done \/ InWindow

CheckedHad ==
    IF InWindow THEN tracker.up_total_size > 0 \/ tracker.down_total_size > 0
    ELSE had_positions

\* PolymarketFeedManager.start and switch_market leave asks that no message
\* of the new market's stream has set: 0.0, or the REST book's best ask; the
\* time stamps of the last updates stay as they are
quotes_after_start(ps) == [ps EXCEPT !.quotes = "unset"]

\* main(): find the market, set_market_tokens, start the feeds, enter the loop
StartTrading ==
    /\ mode = "menu"
    /\ MainFree
    /\ mode' = "trading"
    /\ market_data' = live_market
    /\ tracker' = set_market_tokens(tracker, live_market)
    /\ position_check_done' = FALSE
    /\ had_positions' = FALSE
    /\ redeem_scheduled' = FALSE
    /\ streams' = main_start_feeds(streams)
    /\ price_state' = quotes_after_start(price_state)
    /\ UNCHANGED <<expiry_handled, next_order, timeVars, outerVars, pidVars, chainVars,
                   lockVars, proc>>

\* a loop iteration in the window that reads no key (or one without effect)
MainPositionCheck ==
    /\ KeysRead /\ MainFree
    /\ InWindow
    /\ position_check_done' = CheckedDone
    /\ had_positions' = CheckedHad
    /\ UNCHANGED <<tracker, mode, market_data, redeem_scheduled, expiry_handled,
                   next_order, timeVars, feedVars, outerVars, pidVars, streamVars, chainVars, lockVars, proc>>

\* the expiry branch: schedule auto-redeem, archive, look for the next market
MainMarketExpired ==
    /\ mode = "trading" /\ MainFree
    /\ market_data < live_market
    /\ LET schedule == ~redeem_scheduled /\ had_positions
           archived == ArchiveOpenPositions(tracker)
       IN  /\ proc' = IF schedule
                      THEN [proc EXCEPT ![<<"auto", market_data>>].pc = "sleeping"]
                      ELSE proc
           /\ expiry_handled' = expiry_handled \cup {market_data}
           /\ \E found \in BOOLEAN :
                 IF found
                 THEN /\ market_data' = live_market
                      /\ redeem_scheduled' = FALSE
                      /\ had_positions' = FALSE
                      /\ position_check_done' = FALSE
                      /\ tracker' = set_market_tokens(archived, live_market)
                      /\ \E joined \in BOOLEAN :
                            streams' = switch_market(streams, joined /\ streams.book # "none")
                      /\ price_state' = quotes_after_start(price_state)
                 ELSE /\ redeem_scheduled' = (redeem_scheduled \/ schedule)
                      /\ tracker' = archived
                      /\ UNCHANGED <<market_data, had_positions, position_check_done,
                                      streams, price_state>>
    /\ UNCHANGED <<mode, next_order, timeVars, outerVars, pidVars, chainVars, lockVars>>

\* ------------------------------------------------ trade.py place_order
\* prices live on a grid of PriceTick (the program's cent)
PriceTick == 2 ^ (FracBits - 3)
Asks == {PriceTick * 4 + 1, PriceTick * 6}
Bids == {0, PriceTick * 6}
FillAsks == {PriceTick * 2, PriceTick * 7}

\* math.ceil(ask_price * 100) / 100
normalized_price(ask) == FRound(((ask + PriceTick - 1) \div PriceTick) * PriceTick, 1)

\* math.ceil(1.0 / normalized_price)
min_contracts_for_dollar(price) == (FDiv(One, price) + One - 1) \div One

contracts_for(price) ==
    IF ContractsSize < min_contracts_for_dollar(price)
    THEN min_contracts_for_dollar(price) ELSE ContractsSize

\* round(x, 2): to the nearest grid point, ties to the even one
RoundToTick(x) ==
    LET q == x \div PriceTick
        r == x % PriceTick
        k == IF 2 * r > PriceTick \/ (2 * r = PriceTick /\ q % 2 = 1) THEN q + 1 ELSE q
    IN  FRound(k * PriceTick, 1)

usdc_cost(price) == RoundToTick(FMul(FRound(contracts_for(price) * One, 1), price))

token_id_of(market, side) == <<market, side>>

\* ------------------------------------------------ trade.py PriceState
\* the age of a feed's last update: it never reported (last_*_update = 0), its
\* last update is younger than PRICE_STALE_THRESHOLD, or at least that old
FeedAges == {"never", "fresh", "stale"}
Feeds == {"binance", "polymarket"}

\* the quoted asks: "fresh" when the ask of each side was set by a message of
\* the current market's stream less than PRICE_STALE_THRESHOLD ago, "old" when
\* one of them was set by such a message longer ago, "unset" when one of them
\* was not set by the current market's stream at all
QuoteAges == {"unset", "fresh", "old"}

\* the class attributes before either feed has reported
ColdPriceState ==
    [binance |-> "never", polymarket |-> "never", warmup_complete |-> FALSE,
     quotes |-> "unset"]
\* both feeds reporting, warm-up seen
WarmPriceState ==
    [binance |-> "fresh", polymarket |-> "fresh", warmup_complete |-> TRUE,
     quotes |-> "fresh"]

\* check_warmup: the flag is set, and stays set, once both feeds have reported
check_warmup(ps) ==
    ps.warmup_complete \/ (ps.binance # "never" /\ ps.polymarket # "never")

\* is_fresh: warm-up complete and both ages below PRICE_STALE_THRESHOLD
is_fresh(ps) ==
    check_warmup(ps) /\ ps.polymarket = "fresh" /\ ps.binance = "fresh"

\* is_fresh leaves warmup_complete set through check_warmup
after_is_fresh(ps) == [ps EXCEPT !.warmup_complete = check_warmup(ps)]

StreamOf(feed) == IF feed = "polymarket" THEN "book" ELSE "index"
OldStreamOf(feed) == IF feed = "polymarket" THEN "old_book" ELSE "old_index"

\* a stream's on_message, in a connected thread of the latest start or of an
\* earlier one, stores time.time() as the feed's last update; the order
\* book's returns at once when stop_event is set
\* what a message leaves of the quoted asks: an order-book message may set
\* the ask of both sides, or of one side or none while the time since the
\* other was set goes on; an index-price message sets no ask
on_message_quotes(ps, feed) ==
    IF feed = "polymarket"
    THEN {"fresh", ps.quotes} \cup (IF ps.quotes = "fresh" THEN {"old"} ELSE {})
    ELSE {ps.quotes}

FeedMessage(feed) ==
    /\ mode = "trading"
    /\ streams[StreamOf(feed)] = "connected" \/ "connected" \in streams[OldStreamOf(feed)]
    /\ feed = "polymarket" => ~streams.stop_event
    /\ \E quotes \in on_message_quotes(price_state, feed) :
          price_state' = [price_state EXCEPT ![feed] = "fresh", !.quotes = quotes]
    /\ price_state' # price_state
    /\ UNCHANGED <<tracker, mainVars, timeVars, outerVars, pidVars, streamVars, chainVars, lockVars, proc>>

\* PRICE_STALE_THRESHOLD passes without a message of the feed
FeedSilent(feed) ==
    /\ mode = "trading"
    /\ price_state[feed] = "fresh"
    /\ price_state' = [price_state EXCEPT
                         ![feed] = "stale",
                         !.quotes = IF feed = "polymarket" /\ @ = "fresh" THEN "old" ELSE @]
    /\ UNCHANGED <<tracker, mainVars, timeVars, outerVars, pidVars, streamVars, chainVars, lockVars, proc>>

\* what post_order can do with an order: result with success, result without
\* success, the fill-or-kill exception for lack of liquidity, any other exception
GatewayOutcomes == {"success", "rejected", "not_filled", "exception"}

\* variant: the handler books the order whatever the gateway answered
place_order_books_any(side, ask, limit, outcome) ==
    /\ KeysRead /\ MainFree
    /\ next_order <= limit
    /\ live_market < MaxCycles
    /\ position_check_done' = CheckedDone
    /\ had_positions' = CheckedHad
    /\ price_state' = after_is_fresh(price_state)
    /\ IF is_fresh(price_state) /\ market_data = live_market
       THEN LET price == normalized_price(ask)
            IN  /\ tracker' = add_open_position(tracker, side, price, usdc_cost(price),
                                                token_id_of(market_data, side), next_order)
                /\ next_order' = next_order + 1
                /\ bal' = [bal EXCEPT ![market_data][side] =
                                         IF outcome = "success" THEN @ + 1 ELSE @]
       ELSE UNCHANGED <<tracker, next_order, bal>>
    /\ UNCHANGED <<mode, market_data, redeem_scheduled, expiry_handled, timeVars, outerVars, pidVars, streamVars,
                   resolved, redeemed, neg_risk_flag, lockVars, proc>>

\* place_order for one ask and one answer of the gateway: it returns at once
\* unless the prices are fresh; an order answered with success is recorded, any
\* other answer returns False.
\* Orders are bounded by limit, and none is placed in the last market.
place_order(side, ask, limit, outcome) ==
    /\ KeysRead /\ MainFree
    /\ next_order <= limit
    /\ live_market < MaxCycles
    /\ position_check_done' = CheckedDone
    /\ had_positions' = CheckedHad
    /\ price_state' = after_is_fresh(price_state)
    /\ IF is_fresh(price_state) /\ outcome = "success" /\ market_data = live_market
       THEN LET price == normalized_price(ask)
            IN  /\ tracker' = add_open_position(tracker, side, price, usdc_cost(price),
                                                token_id_of(market_data, side), next_order)
                /\ next_order' = next_order + 1
                /\ bal' = [bal EXCEPT ![market_data][side] = @ + 1]
       ELSE UNCHANGED <<tracker, next_order, bal>>
    /\ UNCHANGED <<mode, market_data, redeem_scheduled, expiry_handled, timeVars, outerVars, pidVars, streamVars,
                   resolved, redeemed, neg_risk_flag, lockVars, proc>>

\* keys "1"/"9"
PlaceOrder(side, asks, limit) ==
    \E ask \in asks, outcome \in GatewayOutcomes : place_order(side, ask, limit, outcome)

KeyBuy(side) == PlaceOrder(side, Asks, MaxOrders)

\* the same keys in a longer session at other prices
LedgerBuy(side) == PlaceOrder(side, FillAsks, MaxFills)

\* sell_all_position for one balance read, one bid and one answer of the
\* gateway: a sale answered with success closes the side, any other answer
\* returns False
sell_all_position(side, balance, bid, outcome) ==
    /\ KeysRead /\ MainFree
    /\ position_check_done' = CheckedDone
    /\ had_positions' = CheckedHad
    /\ IF balance > 0 /\ outcome = "success" /\ market_data = live_market
       THEN LET bid_price == IF bid <= 0 THEN PriceTick ELSE bid
            IN  /\ tracker' = close_all_side_positions(tracker, side, bid_price)
                /\ bal' = [bal EXCEPT ![market_data][side] = 0]
       ELSE UNCHANGED <<tracker, bal>>
    /\ UNCHANGED <<mode, market_data, redeem_scheduled, expiry_handled, next_order,
                   timeVars, feedVars, outerVars, pidVars, streamVars, resolved, redeemed, neg_risk_flag, lockVars, proc>>

\* keys "2"/"0": the wallet's balance of the side is sold
KeySell(side) ==
    /\ KeysRead /\ MainFree
    /\ \E balance \in BalanceReads(market_data, side), bid \in Bids,
          outcome \in GatewayOutcomes : sell_all_position(side, balance, bid, outcome)

\* key "q": cleanup_on_exit, back to the launcher menu; main's locals are gone
KeyQuit ==
    /\ KeysRead /\ MainFree
    /\ mode' = "menu"
    /\ market_data' = 0
    /\ position_check_done' = FALSE
    /\ had_positions' = FALSE
    /\ redeem_scheduled' = FALSE
    /\ \E joined \in BOOLEAN :
          streams' = cleanup_on_exit(streams, joined /\ streams.book # "none")
    /\ UNCHANGED <<tracker, expiry_handled, next_order, timeVars, feedVars, outerVars, pidVars,
                   chainVars, lockVars, proc>>

\* the order ids an event of the user channel may carry
OrderIds == 1..(MaxOrders + MaxFills)

\* on_message: "for pos in tracker.open_positions: if trade_id == taker_order_id"
\* gives the first match, 0 standing for None
MatchedPos(t, taker_order_id) ==
    IF \A k \in DOMAIN t.open_positions : t.open_positions[k].trade_id # taker_order_id
    THEN 0
    ELSE CHOOSE k \in DOMAIN t.open_positions :
            /\ t.open_positions[k].trade_id = taker_order_id
            /\ \A j \in 1..(k - 1) : t.open_positions[j].trade_id # taker_order_id

\* variant: an event that matches no open position still takes a trade back
on_trade_failed_unmatched_counts(t, taker_order_id) ==
    IF MatchedPos(t, taker_order_id) = 0
    THEN [t EXCEPT !.session_trades = @ - 1]
    ELSE remove_failed_position(t, t.open_positions[MatchedPos(t, taker_order_id)])

\* on_message, status FAILED: "if matched_pos: tracker.remove_failed_position"
on_trade_failed(t, taker_order_id) ==
    IF MatchedPos(t, taker_order_id) = 0
    THEN t
    ELSE remove_failed_position(t, t.open_positions[MatchedPos(t, taker_order_id)])

\* user channel: a trade event with status FAILED for a recorded order of the
\* live market; the tokens of the failed trade are not in the wallet
UserWsTradeFailed ==
    \E taker_order_id \in OrderIds :
        LET i == MatchedPos(tracker, taker_order_id)
        IN  /\ i # 0
            /\ LET matched_pos == tracker.open_positions[i]
                   m == matched_pos.token_id[1]
               IN  /\ m = live_market
                   /\ tracker' = on_trade_failed(tracker, taker_order_id)
                   /\ bal' = [bal EXCEPT ![m][matched_pos.side] = IF @ > 0 THEN @ - 1 ELSE 0]
                   /\ UNCHANGED <<mainVars, timeVars, feedVars, outerVars, pidVars, streamVars, resolved, redeemed, neg_risk_flag,
                                   lockVars, proc>>

\* ----------------------------------------------------------------- time
Held(m) ==
    /\ tracker.current_market_id = m
    /\ \/ tracker.up_total_size # 0 \/ tracker.down_total_size # 0
       \/ tracker.up_total_cost # 0 \/ tracker.down_total_cost # 0

\* the last 5 s of the live market begin; then it closes and the next one opens
Tick ==
    /\ \/ /\ clock = "early"
          /\ clock' = "window"
          /\ UNCHANGED <<live_market, held_at_close>>
       \/ /\ clock = "window"
          /\ live_market < MaxCycles
          /\ clock' = "early"
          /\ live_market' = live_market + 1
          /\ held_at_close' = [held_at_close EXCEPT ![live_market] = Held(live_market)]
    /\ UNCHANGED <<tracker, mainVars, feedVars, outerVars, pidVars, streamVars, chainVars, lockVars, proc>>

\* ------------------------------------------------ redeemall.py (batch)
\* find_all_positions: the wallet's positions the Data API lists as redeemable
RECURSIVE RedeemableFrom(_)
RedeemableFrom(m) ==
    IF m > MaxCycles THEN <<>>
    ELSE (IF bal[m] # NoBalance /\ resolved[m] # "no"
          THEN <<[market |-> m, up_balance |-> bal[m]["UP"],
                  down_balance |-> bal[m]["DOWN"]]>>
          ELSE <<>>) \o RedeemableFrom(m + 1)

\* redeemall.main: list the positions; nothing redeemable, or the user cancels: return
BatchList(p) ==
    /\ p = BatchProc
    /\ proc[p].pc \in {"idle", "done"}
    /\ mode = "off" \/ KeysRead
    /\ LET redeemable == RedeemableFrom(1)
       IN  \E confirm \in BOOLEAN :
             proc' = [proc EXCEPT ![p] =
                        IF redeemable = <<>> \/ ~confirm
                        THEN [NewProc EXCEPT !.pc = "done"]
                        ELSE [NewProc EXCEPT !.pc = "rp_entry", !.todo = redeemable]]
    /\ UNCHANGED <<tracker, mainVars, timeVars, feedVars, outerVars, pidVars, streamVars, chainVars, lockVars>>

\* redeem_position: balances come from the listed position; the oracle is checked first
RpOracle(p) ==
    /\ proc[p].pc = "rp_entry"
    /\ LET position == Head(proc[p].todo)
           r == Entered(proc[p], position.market, position.up_balance,
                        position.down_balance)
       IN  \E is_resolved \in OracleReads(position.market) :
             proc' = [proc EXCEPT ![p] =
                        IF is_resolved THEN [r EXCEPT !.pc = "rp_lock_open"]
                        ELSE Returned(r, p, "not_resolved")]
    /\ UNCHANGED <<tracker, mainVars, timeVars, feedVars, outerVars, pidVars, streamVars, chainVars, lockVars>>

RpLockOpen(p) ==
    /\ proc[p].pc = "rp_lock_open"
    /\ \/ LockOpen(p, "rp_lock_try")
       \/ AcquireGaveUp(p, "contended")
    /\ UNCHANGED <<tracker, mainVars, timeVars, feedVars, outerVars, pidVars, streamVars, chainVars>>

RpLockTry(p) ==
    /\ proc[p].pc = "rp_lock_try"
    /\ LockTrySuccess(p, "rp_nonce")
    /\ UNCHANGED <<tracker, mainVars, timeVars, feedVars, outerVars, pidVars, streamVars, chainVars>>

RpLockBusy(p) ==
    /\ proc[p].pc = "rp_lock_try"
    /\ LockTryFail(p)
    /\ UNCHANGED <<tracker, mainVars, timeVars, feedVars, outerVars, pidVars, streamVars, chainVars>>

\* "if not lock.acquire(): ... return False" after the 60 s timeout
RpLockContended(p) ==
    /\ proc[p].pc = "rp_lock_try"
    /\ proc[p].lock_failed
    /\ AcquireGaveUp(p, "contended")
    /\ UNCHANGED <<tracker, mainVars, timeVars, feedVars, outerVars, pidVars, streamVars, chainVars>>

RpNonce(p) ==
    /\ proc[p].pc = "rp_nonce"
    /\ \/ /\ proc' = [proc EXCEPT ![p].nonce_read = TRUE, ![p].pc = "rp_send",
                                    ![p].via = Dispatch(find_all_positions_neg_risk(
                                                           neg_risk_flag[proc[p].market]))]
          /\ UNCHANGED lockVars
       \/ ReturnLocked(p, "error")
    /\ UNCHANGED <<tracker, mainVars, timeVars, feedVars, outerVars, pidVars, streamVars, chainVars>>

RpSend(p) ==
    /\ proc[p].pc = "rp_send"
    /\ \/ /\ proc' = [proc EXCEPT ![p].sent = TRUE, ![p].pc = "rp_wait"]
          /\ UNCHANGED lockVars
       \/ ReturnLocked(p, "error")
    /\ UNCHANGED <<tracker, mainVars, timeVars, feedVars, outerVars, pidVars, streamVars, chainVars>>

RpReceipt(p) ==
    /\ proc[p].pc = "rp_wait"
    /\ \/ /\ MinedOk(proc[p].market)
          /\ ReturnLocked(p, "confirmed")
       \/ /\ \E res \in {"reverted", "error"} : ReturnLocked(p, res)
          /\ UNCHANGED chainVars
    /\ UNCHANGED <<tracker, mainVars, timeVars, feedVars, outerVars, pidVars, streamVars>>

\* redeemall.main: "for pos in redeemable"
BatchNext(p) ==
    /\ proc[p].pc = "rp_returned"
    /\ proc' = [proc EXCEPT ![p] =
                   IF Tail(proc[p].todo) = <<>> THEN [@ EXCEPT !.todo = <<>>, !.pc = "done"]
                   ELSE [NewProc EXCEPT !.todo = Tail(proc[p].todo), !.pc = "rp_entry"]]
    /\ UNCHANGED <<tracker, mainVars, timeVars, feedVars, outerVars, pidVars, streamVars, chainVars, lockVars>>

\* ---------------------------------------------- redeem.py main, redeem
\* get_market_info: the market's "closed" flag as the API reports it
ClosedReads(m) == IF m < live_market THEN {TRUE, FALSE} ELSE {FALSE}

\* redeem.main: the user enters a slug, the market is looked up
RmLookup(p) ==
    /\ p = ManualProc
    /\ proc[p].pc \in {"idle", "done"}
    /\ \E m \in Markets : \E c \in ClosedReads(m) :
         proc' = [proc EXCEPT ![p] = [NewProc EXCEPT !.pc = "rm_entry", !.market = m,
                                                     !.closed = c]]
    /\ UNCHANGED <<tracker, mainVars, timeVars, feedVars, outerVars, pidVars, streamVars, chainVars, lockVars>>

RmBalance(p) ==
    /\ proc[p].pc = "rm_entry"
    /\ LET m == proc[p].market
       IN  \E up \in BalanceReads(m, "UP"), down \in BalanceReads(m, "DOWN") :
             LET r == Entered(proc[p], m, up, down)
             IN  proc' = [proc EXCEPT ![p] =
                            IF up = 0 /\ down = 0 THEN Returned(r, p, "no_tokens")
                            ELSE IF ~r.closed THEN Returned(r, p, "not_closed")
                            ELSE [r EXCEPT !.pc = "rm_oracle"]]
    /\ UNCHANGED <<tracker, mainVars, timeVars, feedVars, outerVars, pidVars, streamVars, chainVars, lockVars>>

\* oracle check, then the "Redeem? (y/n)" prompt; no lock is taken on this path
RmOracle(p) ==
    /\ proc[p].pc = "rm_oracle"
    /\ \E is_resolved \in OracleReads(proc[p].market), confirm \in BOOLEAN :
         proc' = [proc EXCEPT ![p] =
                    IF ~is_resolved THEN Returned(@, p, "not_resolved")
                    ELSE IF ~confirm THEN Returned(@, p, "cancelled")
                    ELSE [@ EXCEPT !.pc = "rm_nonce", !.attempt = 1]]
    /\ UNCHANGED <<tracker, mainVars, timeVars, feedVars, outerVars, pidVars, streamVars, chainVars, lockVars>>

RmNonce(p) ==
    /\ proc[p].pc = "rm_nonce"
    /\ \/ /\ proc' = [proc EXCEPT ![p].nonce_read = TRUE, ![p].pc = "rm_send",
                                    ![p].via = Dispatch(get_market_info_neg_risk(
                                                           neg_risk_flag[proc[p].market]))]
          /\ UNCHANGED lockVars
       \/ ReturnEarly(p, "error")
    /\ UNCHANGED <<tracker, mainVars, timeVars, feedVars, outerVars, pidVars, streamVars, chainVars>>

RmSend(p) ==
    /\ proc[p].pc = "rm_send"
    /\ \/ /\ proc' = [proc EXCEPT ![p].sent = TRUE, ![p].pc = "rm_wait"]
          /\ UNCHANGED lockVars
       \/ ReturnEarly(p, "error")
    /\ UNCHANGED <<tracker, mainVars, timeVars, feedVars, outerVars, pidVars, streamVars, chainVars>>

RmReceipt(p) ==
    /\ proc[p].pc = "rm_wait"
    /\ \/ /\ MinedOk(proc[p].market)
          /\ ReturnEarly(p, "confirmed")
       \/ /\ \E res \in {"reverted", "error"} : ReturnEarly(p, res)
          /\ UNCHANGED chainVars
    /\ UNCHANGED <<tracker, mainVars, timeVars, feedVars, outerVars, pidVars, streamVars>>

\* ----------------------------------------------------------- the oracle
OracleResolve(m) ==
    /\ m < live_market
    /\ resolved[m] = "no"
    /\ \E w \in Sides : resolved' = [resolved EXCEPT ![m] = w]
    /\ UNCHANGED <<tracker, mainVars, timeVars, feedVars, outerVars, pidVars, streamVars, bal, redeemed, neg_risk_flag, lockVars,
                   proc>>

\* ------------------------------------------------ steps of each path
\* redeem_specific when nothing else takes the lock
AutoRedeemAlone(p) ==
    \/ CallRedeemSpecific(p)
    \/ RsBalance(p) \/ RsOracle(p)
    \/ RsLockOpen(p) \/ RsLockTry(p)
    \/ RsNonce(p) \/ RsSend(p) \/ RsReceipt(p)

AutoRedeemStep(p) ==
    \/ AutoRedeemAlone(p)
    \/ RsLockBusy(p) \/ RsLockContended(p)

BatchStep(p) ==
    \/ BatchList(p) \/ RpOracle(p)
    \/ RpLockOpen(p) \/ RpLockTry(p) \/ RpLockBusy(p) \/ RpLockContended(p)
    \/ RpNonce(p) \/ RpSend(p) \/ RpReceipt(p) \/ BatchNext(p)

ManualStep(p) ==
    \/ RmLookup(p) \/ RmBalance(p) \/ RmOracle(p)
    \/ RmNonce(p) \/ RmSend(p) \/ RmReceipt(p)

\* ------------------------------------- the redemption paths, side by side
\* market 1 has closed with tokens in the wallet and its auto-redeem thread is
\* scheduled; redeemall.py and redeem.py are run by hand next to it

InitRedeem ==
    /\ tracker = NewTracker
    /\ mode = "off"
    /\ market_data = 0
    /\ position_check_done = FALSE
    /\ had_positions = FALSE
    /\ redeem_scheduled = FALSE
    /\ expiry_handled = {}
    /\ next_order = 1
    /\ live_market = 2
    /\ clock = "early"
    /\ held_at_close = [m \in Markets |-> FALSE]
    /\ bal \in {b \in [Markets -> [Sides -> 0..1]] :
                  /\ b[1]["UP"] = 1
                  /\ \A m \in Markets : m > 1 => b[m] = NoBalance}
    /\ resolved = [m \in Markets |-> "no"]
    /\ redeemed = [m \in Markets |-> FALSE]
    /\ neg_risk_flag = [m \in Markets |-> "true"]
    /\ price_state = WarmPriceState
    /\ notifier = NewNotifier
    /\ pids = NoPids
    /\ streams = NoStreams
    /\ lock_holder = NoProc
    /\ lock_file = NoProc
    /\ proc = [p \in Procs |-> IF p = <<"auto", 1>> THEN [NewProc EXCEPT !.pc = "sleeping"]
                                ELSE NewProc]

NextRedeem ==
    \/ \E m \in Markets : OracleResolve(m)
    \/ \E p \in AutoProcs : AutoRedeemStep(p)
    \/ BatchStep(BatchProc)
    \/ ManualStep(ManualProc)

SpecRedeem == InitRedeem /\ [][NextRedeem]_vars

\* ------------------------------------------ properties of the redemption paths
InFlight == {p \in Procs : proc[p].pc \in {"rs_wait", "rp_wait", "rm_wait"}}
Submitting == {p \in Procs : proc[p].pc \in {"rs_send", "rs_wait", "rp_send", "rp_wait",
                                               "rm_send", "rm_wait"}}
LockedPaths == AutoProcs \cup {BatchProc}

\* C1: at most one redemption is between the send of its transaction and the
\* transaction's outcome, and every path that submits (redeem_specific,
\* redeemall.redeem_position, redeem.redeem) holds RedeemLock while it does.
C1_OneInFlightUnderLock ==
    /\ Cardinality(InFlight) <= 1
    /\ \A p \in Submitting : lock_holder = p /\ proc[p].acquired

\* C2: a call of redeem_specific or redeem_position for a market whose positions
\* were already redeemed when the call started finds nothing to redeem: it builds
\* and submits no transaction and does not report a redemption. (A call cut
\* short by a failing RPC read or by the lock is not held against the claim.)
C2_SecondCallRedeemsNothing ==
    \A p \in LockedPaths :
        proc[p].after_redeemed =>
            /\ ~proc[p].sent
            /\ proc[p].pc \notin {"rs_send", "rs_wait", "rp_send", "rp_wait"}
            /\ proc[p].result \in {"none", "no_tokens", "not_resolved", "contended"}

\* C3: redeem_specific makes at most 3 attempts; a status-1 receipt ends the call
\* with success on that attempt (the third one after two failures); a call that
\* reports failure has made exactly 3 attempts and makes no fourth.
C3_AtMostThreeAttempts ==
    \A p \in AutoProcs :
        /\ proc[p].attempt <= 3
        /\ proc[p].pc \in {"rs_nonce", "rs_send", "rs_wait"} => proc[p].attempt \in 1..3
        /\ proc[p].result = "confirmed" =>
              /\ proc[p].pc = "done"
              /\ proc[p].attempt \in 1..3
              /\ proc[p].sent
              /\ redeemed[p[2]]
        /\ proc[p].result = "failed" => proc[p].pc = "done" /\ proc[p].attempt = 3

\* two attempts failed, the third one confirmed
C3_ThirdAttemptConfirmed ==
    \E p \in AutoProcs : proc[p].result = "confirmed" /\ proc[p].attempt = 3

\* C4: when RedeemLock.acquire times out the path reports "contended": the call
\* is over, it read no nonce and sent nothing, it holds no lock, the step that
\* reports it leaves the ledger, the chain and the lock as they were; and no
\* path is at its nonce read, build or send without holding the lock.
C4_ContendedState ==
    \A p \in LockedPaths :
        /\ proc[p].result = "contended" =>
              /\ proc[p].pc \in {DonePc(p), "done"}
              /\ ~proc[p].nonce_read /\ ~proc[p].sent
              /\ ~proc[p].acquired /\ ~proc[p].fd
              /\ lock_holder # p
        /\ proc[p].pc \in {"rs_nonce", "rs_send", "rs_wait", "rp_nonce", "rp_send",
                            "rp_wait"} => lock_holder = p

C4_ContendedStep ==
    \A p \in LockedPaths :
        (proc[p].result # "contended" /\ proc'[p].result = "contended") =>
            UNCHANGED <<tracker, chainVars, lockVars>>

C4_ContendedNoSubmission == []C4_ContendedState /\ [][C4_ContendedStep]_vars

\* the acquire timed out while another handle holds the lock
C4_TimedOut ==
    \E p \in LockedPaths :
        /\ proc[p].result = "contended"
        /\ proc[p].lock_failed
        /\ lock_holder \notin {NoProc, p}

\* ------------------------------------------------- the trading terminal
\* the launcher menu, trade.main, the user channel and the auto-redeem threads;
\* no other process takes the redeem lock
Init ==
    /\ tracker = NewTracker
    /\ mode = "menu"
    /\ market_data = 0
    /\ position_check_done = FALSE
    /\ had_positions = FALSE
    /\ redeem_scheduled = FALSE
    /\ expiry_handled = {}
    /\ next_order = 1
    /\ live_market = 1
    /\ clock = "early"
    /\ held_at_close = [m \in Markets |-> FALSE]
    /\ bal = [m \in Markets |-> NoBalance]
    /\ resolved = [m \in Markets |-> "no"]
    /\ redeemed = [m \in Markets |-> FALSE]
    /\ neg_risk_flag = [m \in Markets |-> "true"]
    /\ price_state = WarmPriceState
    /\ notifier = NewNotifier
    /\ pids = NoPids
    /\ streams = NoStreams
    /\ lock_holder = NoProc
    /\ lock_file = NoProc
    /\ proc = [p \in Procs |-> NewProc]

Next ==
    \/ StartTrading
    \/ MainPositionCheck
    \/ MainMarketExpired
    \/ \E side \in Sides : KeyBuy(side)
    \/ \E side \in Sides : KeySell(side)
    \/ KeyQuit
    \/ UserWsTradeFailed
    \/ Tick
    \/ \E m \in Markets : OracleResolve(m)
    \/ \E p \in AutoProcs : AutoRedeemAlone(p)

Spec == Init /\ [][Next]_vars

\* --------------------------------------------- the ledger within one market
\* trading in market 1: orders fill, the user channel reports failures, sides
\* are sold
InitLedger ==
    /\ tracker = set_market_tokens(NewTracker, 1)
    /\ mode = "trading"
    /\ market_data = 1
    /\ position_check_done = FALSE
    /\ had_positions = FALSE
    /\ redeem_scheduled = FALSE
    /\ expiry_handled = {}
    /\ next_order = 1
    /\ live_market = 1
    /\ clock = "early"
    /\ held_at_close = [m \in Markets |-> FALSE]
    /\ bal = [m \in Markets |-> NoBalance]
    /\ resolved = [m \in Markets |-> "no"]
    /\ redeemed = [m \in Markets |-> FALSE]
    /\ neg_risk_flag = [m \in Markets |-> "true"]
    /\ price_state = WarmPriceState
    /\ notifier = NewNotifier
    /\ pids = NoPids
    /\ streams = RunningStreams
    /\ lock_holder = NoProc
    /\ lock_file = NoProc
    /\ proc = [p \in Procs |-> NewProc]

NextLedger ==
    \/ \E side \in Sides : KeyBuy(side)
    \/ \E side \in Sides : KeySell(side)
    \/ UserWsTradeFailed

SpecLedger == InitLedger /\ [][NextLedger]_vars

\* a longer session in market 1, at other prices
NextLedgerLong ==
    \/ \E side \in Sides : LedgerBuy(side)
    \/ \E side \in Sides : KeySell(side)
    \/ UserWsTradeFailed

SpecLedgerLong == InitLedger /\ [][NextLedgerLong]_vars

\* one run of trade.main from market 1 on, across market changes, with no
\* redemption thread looked at
NextSession ==
    \/ MainPositionCheck
    \/ MainMarketExpired
    \/ \E side \in Sides : KeyBuy(side)
    \/ \E side \in Sides : KeySell(side)
    \/ UserWsTradeFailed
    \/ Tick

SpecSession == InitLedger /\ [][NextSession]_vars

\* ---------------------------------------------- properties of the terminal
OtherSide(side) == IF side = "UP" THEN "DOWN" ELSE "UP"

\* C5: once the main loop has handled the close of a market, an auto-redeem is
\* scheduled for that market if and only if one of the accumulators was nonzero
\* at its close_time (a fill just before the close counts; no holdings, no
\* redemption).
C5_ScheduledIffHeldAtClose ==
    \A m \in expiry_handled :
        (proc[<<"auto", m>>].pc # "idle") <=> held_at_close[m]

\* C6: when the redemption of a market has confirmed, the ledger holds no open
\* or pending fill of that market: each was closed at $1 (winning side) or $0
\* (losing side) with its profit realized, and the redeem lock is released.
C6_SettlementApplied ==
    \A m \in Markets :
        proc[<<"auto", m>>].result = "confirmed" =>
            /\ lock_holder # <<"auto", m>>
            /\ \A i \in DOMAIN tracker.open_positions :
                  tracker.open_positions[i].token_id[1] # m
            /\ \A i \in DOMAIN tracker.closed_trades :
                  LET ct == tracker.closed_trades[i]
                  IN  ct.token_id[1] = m =>
                        \/ ct.status = "CLOSED" /\ ct.sale_price \notin {0, One}
                        \/ /\ ct.status = "CLOSED"
                           /\ ct.sale_price = (IF ct.side = resolved[m] THEN One ELSE 0)
                           /\ ct.profit = PositionProfit(ct, ct.sale_price)

\* C7: for each side W, the "W wins" value of get_pnl_scenarios equals the
\* profit realized by close_all_side_positions(W, 1.0) followed by
\* close_all_side_positions(other side, 0.0).
C7_ScenarioIsSettlementProfit ==
    \A W \in Sides :
        LET after_winner == close_all_side_positions(tracker, W, One)
            realized     == FAdd(close_all_side_profit(tracker, W, One),
                                 close_all_side_profit(after_winner, OtherSide(W), 0))
        IN  get_pnl_scenarios(tracker)[W] = realized

\* C8: the accumulators of both sides stay non-negative whatever fills are
\* recorded and reverted.
C8_AccumulatorsNonNegative ==
    /\ tracker.up_total_cost >= 0 /\ tracker.up_total_size >= 0
    /\ tracker.down_total_cost >= 0 /\ tracker.down_total_size >= 0

\* C9: recording a fill and reverting it at once gives back the ledger as it was
\* before: accumulators, list of fills and trade counter.
C9_RevertRestoresLedger ==
    \A side \in Sides, ask \in Asks :
        LET price    == normalized_price(ask)
            recorded == add_open_position(tracker, side, price, usdc_cost(price),
                                          token_id_of(market_data, side), next_order)
            position == recorded.open_positions[Len(recorded.open_positions)]
        IN  remove_failed_position(recorded, position) = tracker

\* the open fills of a side in the market the ledger is set to
OpenFills(side) ==
    SelectSeq(tracker.open_positions,
              LAMBDA p : p.side = side /\ p.token_id[1] = tracker.current_market_id)

RECURSIVE SumCost(_)
SumCost(ps) ==
    IF ps = <<>> THEN 0 ELSE FAdd(SumCost(SubSeq(ps, 1, Len(ps) - 1)), ps[Len(ps)].cost)

RECURSIVE SumShares(_)
SumShares(ps) ==
    IF ps = <<>> THEN 0 ELSE FAdd(SumShares(SubSeq(ps, 1, Len(ps) - 1)), ps[Len(ps)].shares)

\* C10: in every state the accumulators of a side are the sums, over the open
\* fills of the current market session, of their costs and of their shares.
C10_AccumulatorsAreSums ==
    /\ tracker.up_total_cost = SumCost(OpenFills("UP"))
    /\ tracker.up_total_size = SumShares(OpenFills("UP"))
    /\ tracker.down_total_cost = SumCost(OpenFills("DOWN"))
    /\ tracker.down_total_size = SumShares(OpenFills("DOWN"))

\* ------------------------------------------------ settlement and the oracle
\* the engine's states in the code: awaiting the oracle is the oracle check of
\* redeem_specific, waiting for the lock is RedeemLock.acquire
AwaitingOracle(p) == proc[p].pc = "rs_oracle"
LockWait(p) == proc[p].pc \in {"rs_lock_open", "rs_lock_try"}
PastOracle(p) == proc[p].pc \in {"rs_lock_open", "rs_lock_try", "rs_nonce", "rs_send",
                                  "rs_wait"}

\* C11: a poll on which the oracle is unresolved takes no lock and submits
\* nothing and leaves the settlement awaiting the oracle, so that it is still
\* polling when the oracle resolves; it reaches the lock wait at a resolved
\* poll and never earlier.
C11_PollStep ==
    \A p \in AutoProcs :
        /\ (AwaitingOracle(p) /\ proc'[p] # proc[p] /\ resolved[p[2]] = "no") =>
              /\ AwaitingOracle(p)'
              /\ UNCHANGED <<lockVars, chainVars>>
        /\ (~PastOracle(p) /\ PastOracle(p)') =>
              /\ AwaitingOracle(p)
              /\ LockWait(p)'
              /\ resolved[p[2]] # "no"

C11_UnresolvedPollKeepsWaiting == [][C11_PollStep]_vars

\* the terminal with the scheduling the code gives it: the main loop keeps
\* iterating, a started auto-redeem thread keeps running, and the oracle
\* resolves a closed market at some time; key presses are up to the user
SpecLive ==
    /\ Spec
    /\ WF_vars(MainMarketExpired)
    /\ \A m \in Markets : WF_vars(OracleResolve(m))
    /\ \A p \in AutoProcs : WF_vars(AutoRedeemAlone(p))

\* C12: a settlement attempt that ended without a chain write because the
\* oracle was not resolved or the lock was contended is made again later, so
\* the market's redemption is eventually submitted.
C12_AbandonedAttemptRetried ==
    \A p \in AutoProcs :
        (proc[p].result \in {"not_resolved", "contended"}) ~> (proc[p].sent \/ redeemed[p[2]])

\* ------------------------------------------------ properties of RedeemLock
InsideTry(p) == proc[p].pc \in {"rs_nonce", "rs_send", "rs_wait",
                                "rp_nonce", "rp_send", "rp_wait"}

\* C13: once redeem_specific or redeem_position has returned after taking the
\* lock (confirmed, reverted, retry budget exhausted, or an exception), the
\* caller no longer holds it: the lock is held only inside the try block.
C13_ReturnedHoldsNoLock ==
    \A p \in LockedPaths :
        ~InsideTry(p) => lock_holder # p /\ ~proc[p].acquired

\* the retry budget was exhausted under the lock, and the lock is free again
C13_BudgetExhaustedReleased ==
    \E p \in AutoProcs :
        /\ proc[p].result = "failed" /\ proc[p].attempt = max_attempts
        /\ proc[p].pc = "done"
        /\ lock_holder = NoProc

\* RedeemLock.acquire as the calling thread runs it
InAcquire(p) == proc[p].pc \in {"rs_lock_open", "rs_lock_try", "rp_lock_open", "rp_lock_try"}

AcquireStep(p) ==
    \/ RsLockOpen(p) \/ RsLockTry(p) \/ RsLockBusy(p) \/ RsLockContended(p)
    \/ RpLockOpen(p) \/ RpLockTry(p) \/ RpLockBusy(p) \/ RpLockContended(p)

\* the two paths that take the lock, side by side: market 1 has closed with
\* tokens in the wallet and the oracle has resolved it; its auto-redeem thread
\* is scheduled and redeemall.py is run by hand
InitLock ==
    /\ tracker = NewTracker
    /\ mode = "off"
    /\ market_data = 0
    /\ position_check_done = FALSE
    /\ had_positions = FALSE
    /\ redeem_scheduled = FALSE
    /\ expiry_handled = {}
    /\ next_order = 1
    /\ live_market = 2
    /\ clock = "early"
    /\ held_at_close = [m \in Markets |-> FALSE]
    /\ bal \in {b \in [Markets -> [Sides -> 0..1]] :
                  /\ b[1]["UP"] = 1
                  /\ \A m \in Markets : m > 1 => b[m] = NoBalance}
    /\ resolved \in {r \in [Markets -> {"no", "UP", "DOWN"}] :
                       /\ r[1] # "no"
                       /\ \A m \in Markets : m > 1 => r[m] = "no"}
    /\ redeemed = [m \in Markets |-> FALSE]
    /\ neg_risk_flag = [m \in Markets |-> "true"]
    /\ price_state = WarmPriceState
    /\ notifier = NewNotifier
    /\ pids = NoPids
    /\ streams = NoStreams
    /\ lock_holder = NoProc
    /\ lock_file = NoProc
    /\ proc = [p \in Procs |-> IF p = <<"auto", 1>> THEN [NewProc EXCEPT !.pc = "sleeping"]
                                ELSE NewProc]

NextLock ==
    \/ \E p \in AutoProcs : AutoRedeemStep(p)
    \/ BatchStep(BatchProc)

SpecLock == InitLock /\ [][NextLock]_vars

\* a thread inside acquire() keeps running; nothing is assumed of the other
\* process, nor of the holder of the lock
SpecLockLive ==
    /\ SpecLock
    /\ \A p \in LockedPaths : WF_vars(AcquireStep(p))

\* C14: RedeemLock.acquire terminates whatever the other processes do: a
\* caller inside acquire leaves it, with the lock when an attempt succeeded, or
\* with False and holding nothing (no flock, no open file) after the timeout.
C14_AcquireOutcome ==
    \A p \in LockedPaths :
        /\ proc[p].acquired => lock_holder = p /\ proc[p].fd /\ InsideTry(p)
        /\ (~InAcquire(p) /\ ~InsideTry(p)) => lock_holder # p /\ ~proc[p].fd

C14_AcquireTerminates ==
    /\ []C14_AcquireOutcome
    /\ \A p \in LockedPaths : InAcquire(p) ~> ~InAcquire(p)

\* acquire gave up after a failed attempt while the holder kept the lock
C14_GaveUpUnderHolder ==
    \E p \in LockedPaths :
        /\ proc[p].result = "contended" /\ proc[p].lock_failed /\ ~proc[p].fd
        /\ \E q \in LockedPaths \ {p} : lock_holder = q /\ proc[q].pc \in {"rs_wait", "rp_wait"}

\* C15: release() frees the flock exactly when this handle holds it; on a
\* handle that holds nothing (a second release, or after an acquire that failed
\* or timed out) it changes neither the handle nor the lock, so it never frees
\* a lock another handle holds.
C15_ReleaseIdempotent ==
    \A p \in LockedPaths :
        LET h       == proc[p]
            once    == Released(h)
            holder1 == ReleaseOf(h, lock_holder, p)
            twice   == Released(once)
            holder2 == ReleaseOf(once, holder1, p)
        IN  /\ lock_holder = p => holder1 = NoProc /\ ~once.fd /\ ~once.acquired
            /\ lock_holder # p => holder1 = lock_holder /\ once = h
            /\ twice = once /\ holder2 = holder1

\* a handle whose acquire timed out, next to the handle that holds the lock
C15_FailedHandleBesideHolder ==
    \E p \in LockedPaths, q \in LockedPaths :
        /\ p # q /\ lock_holder = q /\ proc[q].acquired
        /\ proc[p].result = "contended" /\ proc[p].lock_failed
        /\ ReleaseOf(proc[p], lock_holder, p) = q
        /\ ReleaseOf(Released(proc[q]), ReleaseOf(proc[q], lock_holder, q), q) = NoProc

\* C16: while a handle holds RedeemLock the lock file contains the holder's
\* PID, whatever other processes do that are attempting acquire.
C16_LockFileNamesHolder ==
    lock_holder # NoProc => lock_file = lock_holder

\* ------------------------------------------------ properties of the ledger
\* C17: in every ledger state get_paired_analysis gives paired_contracts =
\* min(qtyUP, qtyDOWN), paired_contracts + unpaired_up = qtyUP,
\* paired_contracts + unpaired_down = qtyDOWN, and unpaired_up * unpaired_down
\* = 0.
C17_PairedPlusUnpaired ==
    LET a == get_paired_analysis(tracker)
    IN  /\ a.paired_contracts = FMin(tracker.up_total_size, tracker.down_total_size)
        /\ FAdd(a.paired_contracts, a.unpaired_up) = tracker.up_total_size
        /\ FAdd(a.paired_contracts, a.unpaired_down) = tracker.down_total_size
        /\ FMul(a.unpaired_up, a.unpaired_down) = 0

\* C18: for any ledger state, pnl_if_resolves(UP) + total_invested = qtyUP and
\* pnl_if_resolves(DOWN) + total_invested = qtyDOWN, total_invested being the
\* sum of both sides' total_cost.
C18_ScenarioPlusInvested ==
    LET total_invested == FAdd(tracker.up_total_cost, tracker.down_total_cost)
        scenarios      == get_pnl_scenarios(tracker)
    IN  /\ FAdd(scenarios.UP, total_invested) = tracker.up_total_size
        /\ FAdd(scenarios.DOWN, total_invested) = tracker.down_total_size

\* the prices a side is sold at
SalePrices == {PriceTick, PriceTick * 6, One}

\* C19: close_all_side_positions called a second time for the same side with
\* no fill in between returns zero profit and changes nothing: realized P/L,
\* win counter, fills, closed trades and both sides' accumulators stay.
C19_SecondCloseIsNoOp ==
    \A side \in Sides, first \in SalePrices, second \in SalePrices :
        LET once == close_all_side_positions(tracker, side, first)
        IN  /\ close_all_side_profit(once, side, second) = 0
            /\ close_all_side_positions(once, side, second) = once

\* a side with fills has been sold at a profit or loss, the other side is open
C19_SideClosedOtherOpen ==
    \E side \in Sides :
        /\ \E i \in DOMAIN tracker.closed_trades :
              tracker.closed_trades[i].side = side /\ tracker.closed_trades[i].profit # 0
        /\ \A i \in DOMAIN tracker.open_positions : tracker.open_positions[i].side # side
        /\ tracker.open_positions # <<>>
        /\ tracker.session_pnl # 0
        /\ \A price \in SalePrices :
              close_all_side_positions(tracker, side, price) = tracker

\* the ids of the fills the ledger has recorded and no longer holds open
OpenIds == {tracker.open_positions[i].trade_id : i \in DOMAIN tracker.open_positions}
ClosedIds(status) ==
    {tracker.closed_trades[i].trade_id :
        i \in {k \in DOMAIN tracker.closed_trades : tracker.closed_trades[k].status = status}}

\* a fill as it was recorded, before it was closed or archived
AsRecorded(ct) ==
    NewPosition(ct.side, ct.price, ct.size, ct.token_id, ct.trade_id)

\* C20: a FAILED event whose order id matches no open fill (never recorded,
\* already reverted, closed by a sale of its side, or archived at market
\* expiry) changes nothing: accumulators, fills and trade counter stay, and
\* reverting a fill that is no longer open changes nothing either.
C20_UnknownOrderIsNoOp ==
    /\ \A id \in OrderIds \ OpenIds : on_trade_failed(tracker, id) = tracker
    /\ \A i \in DOMAIN tracker.closed_trades :
          AsRecorded(tracker.closed_trades[i]) \notin Range(tracker.open_positions) =>
              remove_failed_position(tracker, AsRecorded(tracker.closed_trades[i])) = tracker

\* one recorded fill was reverted, another archived at expiry, and the ledger
\* still carries amounts an event could change
C20_RevertedAndArchived ==
    /\ \E id \in ClosedIds("PENDING_SETTLE") : on_trade_failed(tracker, id) = tracker
    /\ \E id \in 1..(next_order - 1) :
          id \notin OpenIds \cup ClosedIds("PENDING_SETTLE") \cup ClosedIds("CLOSED")
    /\ tracker.session_trades > 0
    /\ tracker.up_total_size # 0 \/ tracker.down_total_size # 0

\* C21: reverting the fill of one order commutes with recording the fill of
\* another order: record then revert gives the same accumulators, open fills
\* and trade counter as revert then record.
C21_RevertCommutesWithRecord ==
    \A i \in DOMAIN tracker.open_positions, side \in Sides, ask \in Asks :
        LET position == tracker.open_positions[i]
            price    == normalized_price(ask)
            record(t) == add_open_position(t, side, price, usdc_cost(price),
                                           token_id_of(market_data, side), next_order)
        IN  remove_failed_position(record(tracker), position)
              = record(remove_failed_position(tracker, position))

\* C22: the had_positions snapshot is taken exactly once per market cycle
\* whatever the timing of the loop's iterations: it is taken only in the
\* window of the market traded, it has been taken when the loop handles the
\* market's expiry, and the flag is reset only when the loop switches to a new
\* market (or main returns and its locals are gone).
C22_Step ==
    /\ (~position_check_done /\ position_check_done') => InWindow
    /\ (mode = "trading" /\ market_data \in expiry_handled' \ expiry_handled) =>
          position_check_done
    /\ (position_check_done /\ ~position_check_done') =>
          \/ mode' = "menu"
          \/ market_data' # market_data

C22_SnapshotOncePerMarket == [][C22_Step]_vars

\* ------------------------------------------------ the redeem call path
\* the redemption paths side by side, for a market 1 of either kind or with no
\* negRisk field in its data
InitDispatch ==
    /\ tracker = NewTracker
    /\ mode = "off"
    /\ market_data = 0
    /\ position_check_done = FALSE
    /\ had_positions = FALSE
    /\ redeem_scheduled = FALSE
    /\ expiry_handled = {}
    /\ next_order = 1
    /\ live_market = 2
    /\ clock = "early"
    /\ held_at_close = [m \in Markets |-> FALSE]
    /\ bal = [m \in Markets |-> IF m = 1 THEN [s \in Sides |-> 1] ELSE NoBalance]
    /\ resolved = [m \in Markets |-> "no"]
    /\ redeemed = [m \in Markets |-> FALSE]
    /\ neg_risk_flag \in {f \in [Markets -> FlagValues] : \A m \in Markets : m > 1 => f[m] = "true"}
    /\ price_state = WarmPriceState
    /\ notifier = NewNotifier
    /\ pids = NoPids
    /\ streams = NoStreams
    /\ lock_holder = NoProc
    /\ lock_file = NoProc
    /\ proc = [p \in Procs |-> IF p = <<"auto", 1>> THEN [NewProc EXCEPT !.pc = "sleeping"]
                                ELSE NewProc]

SpecDispatch == InitDispatch /\ [][NextRedeem]_vars

\* C23: the call path a redemption of a market takes (NegRisk adapter or CTF)
\* is a function of the market's neg-risk flag only: the adapter when the flag
\* is true, the CTF when it is false, and the same path in every attempt and
\* in every redemption path, also when the flag is missing.
C23_DispatchByFlagOnly ==
    /\ \A p \in Procs :
          proc[p].via # "none" =>
              /\ neg_risk_flag[proc[p].market] = "true" => proc[p].via = "adapter"
              /\ neg_risk_flag[proc[p].market] = "false" => proc[p].via = "ctf"
    /\ \A p \in Procs, q \in Procs :
          (proc[p].via # "none" /\ proc[q].via # "none"
             /\ proc[p].market = proc[q].market) => proc[p].via = proc[q].via


\* ------------------------------------------------ orders and price freshness
\* a trading session from its start, the feeds not having reported yet
InitFeed ==
    /\ tracker = set_market_tokens(NewTracker, 1)
    /\ mode = "trading"
    /\ market_data = 1
    /\ position_check_done = FALSE
    /\ had_positions = FALSE
    /\ redeem_scheduled = FALSE
    /\ expiry_handled = {}
    /\ next_order = 1
    /\ live_market = 1
    /\ clock = "early"
    /\ held_at_close = [m \in Markets |-> FALSE]
    /\ bal = [m \in Markets |-> NoBalance]
    /\ resolved = [m \in Markets |-> "no"]
    /\ redeemed = [m \in Markets |-> FALSE]
    /\ neg_risk_flag = [m \in Markets |-> "true"]
    /\ price_state = ColdPriceState
    /\ notifier = NewNotifier
    /\ pids = NoPids
    /\ streams = RunningStreams
    /\ lock_holder = NoProc
    /\ lock_file = NoProc
    /\ proc = [p \in Procs |-> NewProc]

NextFeed ==
    \/ \E side \in Sides : KeyBuy(side)
    \/ \E side \in Sides : KeySell(side)
    \/ \E feed \in Feeds : FeedMessage(feed)
    \/ \E feed \in Feeds : FeedSilent(feed)

SpecFeed == InitFeed /\ [][NextFeed]_vars

\* C24: while the price snapshot is not fresh, neither place_order nor
\* sell_all_position reaches the exchange or changes the ledger: a step taken
\* with is_fresh false leaves the ledger and the wallet's tokens as they were
C24_StaleBlocksOrders ==
    [][~is_fresh(price_state) => UNCHANGED <<tracker, bal>>]_vars

\* C25: an order the gateway does not answer with success (rejected, a
\* fill-or-kill not filled, an exception) leaves fills, accumulators and the
\* trade counter as they were, and the handler returns after that one order:
\* no order id is used up and the wallet's tokens do not change
C25_RejectedOutcomes == GatewayOutcomes \ {"success"}

C25_RejectedStep ==
    /\ KeysRead /\ MainFree
    /\ \E side \in Sides, outcome \in C25_RejectedOutcomes :
          \/ \E ask \in Asks : place_order(side, ask, MaxOrders, outcome)
          \/ \E balance \in BalanceReads(market_data, side), bid \in Bids :
                sell_all_position(side, balance, bid, outcome)

C25_RejectedOrderLeavesLedger ==
    [][C25_RejectedStep => UNCHANGED <<tracker, next_order, bal>>]_vars

\* place_order has run with fresh prices (it left warmup_complete set) and
\* nothing is booked: no position, no trade counted, no order id used
C25_OrderTriedNothingBooked ==
    /\ price_state.warmup_complete
    /\ is_fresh(price_state)
    /\ tracker.open_positions = <<>>
    /\ tracker.session_trades = 0
    /\ next_order = 1

\* ------------------------------------------------ recording a bad fill
\* prices and dollar sizes a caller can hand to add_open_position: negative,
\* zero, and a regular one
FillArgs == {-PriceTick, 0, PriceTick * 4}

\* C26: add_open_position with price <= 0 or size <= 0 is refused: the fills
\* list, both accumulators and the trade counter stay as they are
C26_BadFillRefused ==
    \A side \in Sides, price \in FillArgs, size \in FillArgs :
        (price <= 0 \/ size <= 0) =>
            add_open_position(tracker, side, price, size,
                              token_id_of(market_data, side), next_order) = tracker

\* ------------------------------------------------ what the operator is told
\* redeem_specific returns True after a confirmed redemption, False otherwise
redeem_specific_returns(result) == result = "confirmed"

\* auto_redeem hands add_message one of two messages, by the returned value
auto_redeem_message(returned) ==
    IF returned
    THEN [text |-> "Redeemed OK!", level |-> "success"]
    ELSE [text |-> "Redeem: no tokens or not resolved", level |-> "warn"]

\* C27: a redemption that used up its attempts reaches add_message at the
\* level "critical", with a message that differs from the ones for no tokens,
\* oracle not resolved and lock contended
C27_FailureNotifiedCritical ==
    \A p \in AutoProcs :
        proc[p].result = "failed" =>
            LET sent == auto_redeem_message(redeem_specific_returns(proc[p].result))
            IN  /\ sent.level = "critical"
                /\ \A other \in {"no_tokens", "not_resolved", "contended"} :
                      auto_redeem_message(redeem_specific_returns(other)) # sent

\* ------------------------------------------------ completing the pairs
\* the asks the display hands to get_buy_recommendation; 0 is a side with no quote
Quotes == {0} \cup FillAsks \cup Asks

\* the ledger after a fill of the recommended side at the recommended price
\* for the recommended dollars
AfterRecommended(t, rec) ==
    add_open_position(t, rec.side, rec.price, rec.add_cost,
                      token_id_of(market_data, rec.side), next_order)

\* C28: a recommendation names the side opposite to the unpaired one and the
\* unpaired quantity, and a fill of just that leaves nothing unpaired; with
\* nothing unpaired there is no recommendation
C28_RecommendationCompletesPairs ==
    \A current_up_ask \in Quotes, current_down_ask \in Quotes :
        LET analysis == get_paired_analysis(tracker)
            rec      == get_buy_recommendation(tracker, current_up_ask, current_down_ask)
        IN  /\ (analysis.unpaired_up = 0 /\ analysis.unpaired_down = 0) =>
                    rec = NoRecommendation
            /\ rec # NoRecommendation =>
                  /\ rec.side = "DOWN" => rec.contracts = analysis.unpaired_up
                                            /\ analysis.unpaired_up > 0
                  /\ rec.side = "UP" => rec.contracts = analysis.unpaired_down
                                          /\ analysis.unpaired_down > 0
                  /\ LET after == get_paired_analysis(AfterRecommended(tracker, rec))
                     IN  after.unpaired_up = 0 /\ after.unpaired_down = 0

\* a short session with fills at any of the asks
BookBuy(side) == PlaceOrder(side, Asks \cup FillAsks, MaxOrders)

NextBook ==
    \/ \E side \in Sides : BookBuy(side)
    \/ \E side \in Sides : KeySell(side)
    \/ UserWsTradeFailed

SpecBook == InitLedger /\ [][NextBook]_vars

\* C29: the recommendation's combined price is the average price of the
\* unpaired side (0 for a side with no contracts) plus the ask of the side to
\* buy, and its color is green iff
\* combined < 0.98, yellow iff 0.98 <= combined <= 1.00, red iff combined > 1.00
C29_CombinedPriceAndSignal ==
    \A current_up_ask \in Quotes, current_down_ask \in Quotes :
        LET rec == get_buy_recommendation(tracker, current_up_ask, current_down_ask)
            cost == IF rec.side = "DOWN" THEN tracker.up_total_cost
                    ELSE tracker.down_total_cost
            size == IF rec.side = "DOWN" THEN tracker.up_total_size
                    ELSE tracker.down_total_size
            avg == IF size > 0 THEN FDiv(cost, size) ELSE 0
            ask == IF rec.side = "DOWN" THEN current_down_ask ELSE current_up_ask
        IN  rec # NoRecommendation =>
              /\ rec.combined_price = FAdd(avg, ask)
              /\ rec.color \in {"green", "yellow", "red"}
              /\ rec.color = "green" <=> rec.combined_price < GreenBelow
              /\ rec.color = "yellow" <=> (GreenBelow <= rec.combined_price
                                            /\ rec.combined_price <= YellowUpTo)
              /\ rec.color = "red" <=> rec.combined_price > YellowUpTo

\* one ledger for which the asks on offer give a green, a red and a yellow
\* recommendation, the yellow one at a combined price of exactly 1.00
C29_AllThreeSignals ==
    \E g \in Quotes, y \in Quotes, r \in Quotes :
        /\ get_buy_recommendation(tracker, g, g) # NoRecommendation
        /\ get_buy_recommendation(tracker, g, g).color = "green"
        /\ get_buy_recommendation(tracker, y, y) # NoRecommendation
        /\ get_buy_recommendation(tracker, y, y).color = "yellow"
        /\ get_buy_recommendation(tracker, y, y).combined_price = YellowUpTo
        /\ get_buy_recommendation(tracker, r, r) # NoRecommendation
        /\ get_buy_recommendation(tracker, r, r).color = "red"

\* C30: paired_cost is the paired share of each side's cost (paired/up_contracts
\* of the UP cost plus paired/down_contracts of the DOWN cost), locked_profit is
\* paired_contracts * $1 - paired_cost, and paired_cost is never more than the
\* total invested
C30_PairedCostProportional ==
    LET analysis == get_paired_analysis(tracker)
        paired   == analysis.paired_contracts
    IN  /\ paired = FMin(tracker.up_total_size, tracker.down_total_size)
        /\ paired > 0 =>
              analysis.paired_cost =
                  FAdd(FMul(FDiv(paired, tracker.up_total_size), tracker.up_total_cost),
                       FMul(FDiv(paired, tracker.down_total_size), tracker.down_total_cost))
        /\ analysis.locked_profit = FSub(FMul(paired, One), analysis.paired_cost)
        /\ analysis.paired_cost <= FAdd(tracker.up_total_cost, tracker.down_total_cost)

\* ------------------------------------------------ reading the ledger
\* get_avg_up_price / get_avg_down_price: cost over size, 0.0 for an empty side
get_avg_up_price(t) ==
    IF t.up_total_size > 0 THEN FDiv(t.up_total_cost, t.up_total_size) ELSE 0

get_avg_down_price(t) ==
    IF t.down_total_size > 0 THEN FDiv(t.down_total_cost, t.down_total_size) ELSE 0

\* get_pair_cost: the two averages added, 0.0 unless both are positive
get_pair_cost(t) ==
    IF get_avg_up_price(t) > 0 /\ get_avg_down_price(t) > 0
    THEN FAdd(get_avg_up_price(t), get_avg_down_price(t)) ELSE 0

get_position_summary(t) ==
    [up_avg      |-> get_avg_up_price(t),
     up_trades   |-> Cardinality({i \in DOMAIN t.open_positions :
                                    t.open_positions[i].side = "UP"}),
     up_total    |-> t.up_total_cost,
     down_avg    |-> get_avg_down_price(t),
     down_trades |-> Cardinality({i \in DOMAIN t.open_positions :
                                    t.open_positions[i].side = "DOWN"}),
     down_total  |-> t.down_total_cost]

\* variant: reading the averages clears the realized P/L of the session
ReadLedger_clears_pnl(t, current_up_ask, current_down_ask) ==
    [self           |-> [t EXCEPT !.session_pnl = 0],
     analysis       |-> get_paired_analysis(t),
     recommendation |-> get_buy_recommendation(t, current_up_ask, current_down_ask),
     scenarios      |-> get_pnl_scenarios(t),
     summary        |-> get_position_summary(t),
     pair_cost      |-> get_pair_cost(t)]

\* the read operations called one after the other: what each returns, and the
\* tracker they leave behind (none of them assigns to a field of self)
ReadLedger(t, current_up_ask, current_down_ask) ==
    [self           |-> t,
     analysis       |-> get_paired_analysis(t),
     recommendation |-> get_buy_recommendation(t, current_up_ask, current_down_ask),
     scenarios      |-> get_pnl_scenarios(t),
     summary        |-> get_position_summary(t),
     pair_cost      |-> get_pair_cost(t)]

\* the ledgers that recording a fill, reverting one, closing a side, and the
\* archive and reset at a market switch can make of t
LedgerMutations(t) ==
    {add_open_position(t, side, normalized_price(ask), usdc_cost(normalized_price(ask)),
                       token_id_of(market_data, side), next_order) :
        side \in Sides, ask \in Asks \cup FillAsks}
    \cup {on_trade_failed(t, taker_order_id) : taker_order_id \in OrderIds}
    \cup {close_all_side_positions(t, side, IF bid <= 0 THEN PriceTick ELSE bid) :
             side \in Sides, bid \in Bids}
    \cup {ArchiveOpenPositions(t)}
    \cup {set_market_tokens(ArchiveOpenPositions(t), m) : m \in Markets}

\* a session over the market switches with fills at one ask
SwitchBuy(side) == PlaceOrder(side, {PriceTick * 6}, MaxOrders)

NextSwitch ==
    \/ MainMarketExpired
    \/ \E side \in Sides : SwitchBuy(side)
    \/ \E side \in Sides : KeySell(side)
    \/ UserWsTradeFailed
    \/ Tick

SpecSwitch == InitLedger /\ [][NextSwitch]_vars

\* C31: the read operations leave the ledger (fills, accumulators, realized
\* P/L, counters) as it is, and a step that changes the ledger is a fill being
\* recorded or reverted, a side being closed, or the reset at a market switch
C31_ReadsLeaveLedger ==
    \A current_ask \in {0, PriceTick * 6} :
        ReadLedger(tracker, current_ask, current_ask).self = tracker

C31_OnlyMutatorsChange ==
    tracker' # tracker => tracker' \in LedgerMutations(tracker)

LockedMutations(t) ==
    {add_open_position(t, side, normalized_price(ask), usdc_cost(normalized_price(ask)),
                       token_id_of(market_data, side), next_order) :
        side \in Sides, ask \in Asks \cup FillAsks}
    \cup {on_trade_failed(t, taker_order_id) : taker_order_id \in OrderIds}
    \cup {close_all_side_positions(t, side, IF bid <= 0 THEN PriceTick ELSE bid) :
             side \in Sides, bid \in Bids}
    \cup {set_market_tokens(t, m) : m \in Markets}

\* C32: every change of the ledger is made by a method holding
\* PositionTracker._lock, so that fills list and accumulators change together
C32_MutationsUnderLock ==
    [][tracker' # tracker => tracker' \in LockedMutations(tracker)]_vars

\* ------------------------------------------------ the notifier's queue
\* Queue(maxsize=100), scaled down, and the number of notify calls of a run
QueueMax == 2
MaxTexts == 5

\* notify: put_nowait appends under the queue's own mutex, or raises Full
NotifyPut(th) ==
    /\ notifier.at[th] = "idle"
    /\ notifier.texts < MaxTexts
    /\ notifier' =
          IF Len(notifier.queue) < QueueMax
          THEN [notifier EXCEPT !.queue = Append(@, notifier.texts + 1), !.texts = @ + 1]
          ELSE [notifier EXCEPT !.texts = @ + 1, !.full_seen = @ + 1, !.at[th] = "except"]
    /\ UNCHANGED <<tracker, mainVars, timeVars, feedVars, pidVars, streamVars, chainVars, lockVars,
                   proc>>

\* "self.dropped_count += 1" reads the attribute ...
NotifyLoad(th) ==
    /\ notifier.at[th] = "except"
    /\ notifier' = [notifier EXCEPT !.loaded[th] = notifier.dropped_count,
                                    !.at[th] = "loaded"]
    /\ UNCHANGED <<tracker, mainVars, timeVars, feedVars, pidVars, streamVars, chainVars, lockVars,
                   proc>>

\* ... and stores the sum; no lock is held in between
NotifyStore(th) ==
    /\ notifier.at[th] = "loaded"
    /\ notifier' = [notifier EXCEPT !.dropped_count = notifier.loaded[th] + 1,
                                    !.loaded[th] = 0, !.at[th] = "idle"]
    /\ UNCHANGED <<tracker, mainVars, timeVars, feedVars, pidVars, streamVars, chainVars, lockVars,
                   proc>>

\* _worker: queue.get takes the oldest message and sends it
NotifyWorker ==
    /\ notifier.queue # <<>>
    /\ notifier' = [notifier EXCEPT !.queue = Tail(@)]
    /\ UNCHANGED <<tracker, mainVars, timeVars, feedVars, pidVars, streamVars, chainVars, lockVars,
                   proc>>

NextNotify ==
    \/ \E th \in NotifyThreads : NotifyPut(th)
    \/ \E th \in NotifyThreads : NotifyLoad(th)
    \/ \E th \in NotifyThreads : NotifyStore(th)
    \/ NotifyWorker

SpecNotify == InitLedger /\ [][NextNotify]_vars

\* C33: notify returns without blocking: the queue never holds more than its
\* maximum, queued messages are in the order they were put, and once no caller
\* is inside notify dropped_count is the number of messages refused on a full
\* queue
C33_BoundedQueueCountsDrops ==
    /\ Len(notifier.queue) <= QueueMax
    /\ \A i \in 1..(Len(notifier.queue) - 1) : notifier.queue[i] < notifier.queue[i + 1]
    /\ (\A th \in NotifyThreads : notifier.at[th] = "idle") =>
          notifier.dropped_count = notifier.full_seen

\* ------------------------------------------------ the feed threads' loops
Streams == {"book", "index"}

\* the flag a stream's loop tests: stop_event for the order book,
\* shutdown_requested for the index price
StopFlag(k) == IF k = "book" THEN streams.stop_event ELSE streams.shutdown_requested
OldOf(k) == IF k = "book" THEN "old_book" ELSE "old_index"

\* variant: a loop that gives up after a disconnect
run_ws_gives_up(pc, flag) ==
    IF pc = "top" THEN (IF flag THEN {"exit"} ELSE {"connected", "after"})
    ELSE IF pc = "connected" THEN {"after"}
    ELSE IF pc = "after" THEN {"exit"}
    ELSE {"top"}

\* run_ws, one step: the loop test, then run_forever (or an exception on the
\* way to it), then the test after the disconnect, then time.sleep(2)
run_ws(pc, flag) ==
    IF pc = "top" THEN (IF flag THEN {"exit"} ELSE {"connected", "after"})
    ELSE IF pc = "connected" THEN {"after"}
    ELSE IF pc = "after" THEN (IF flag THEN {"exit"} ELSE {"sleep"})
    ELSE {"top"}

\* the thread of the latest start takes a step
StreamThreadStep(k) ==
    /\ streams[k] \in LivePcs
    /\ \E nxt \in run_ws(streams[k], StopFlag(k)) :
          streams' = [streams EXCEPT ![k] = IF nxt = "exit" THEN "none" ELSE nxt,
                                     !.last_exit = IF nxt = "exit" THEN k ELSE "none"]
    /\ UNCHANGED <<tracker, mainVars, timeVars, feedVars, outerVars, pidVars, chainVars, lockVars,
                   proc>>

\* a thread of an earlier start takes a step
OldThreadStep(k) ==
    /\ \E pc \in streams[OldOf(k)] : \E nxt \in run_ws(pc, StopFlag(k)) :
          streams' = [streams EXCEPT
                        ![OldOf(k)] = (@ \ {pc}) \cup (IF nxt = "exit" THEN {} ELSE {nxt}),
                        !.last_exit = IF nxt = "exit" THEN k ELSE "none"]
    /\ UNCHANGED <<tracker, mainVars, timeVars, feedVars, outerVars, pidVars, chainVars, lockVars,
                   proc>>

NextStreams ==
    \/ StartTrading
    \/ MainMarketExpired
    \/ KeyQuit
    \/ Tick
    \/ \E k \in Streams : StreamThreadStep(k)
    \/ \E k \in Streams : OldThreadStep(k)

SpecStreams == InitLedger /\ [][NextStreams]_vars

\* C34: a feed thread leaves its reconnection loop only with its flag set
\* (stop_event for the order book, shutdown_requested for the index price);
\* after a disconnect or a connection error without the flag it goes on to
\* reconnect
C34_ExitStep ==
    /\ (streams' # streams /\ streams'.last_exit = "book") => streams.stop_event
    /\ (streams' # streams /\ streams'.last_exit = "index") => streams.shutdown_requested
    /\ \A k \in Streams :
          (streams[k] = "after" /\ ~StopFlag(k) /\ streams'[k] # streams[k]
             /\ UNCHANGED <<tracker, mainVars, timeVars>>) =>
                streams'[k] = "sleep"

C34_LoopExitsOnlyOnFlag == [][C34_ExitStep]_vars

\* the order-book thread has just left its loop on stop_event while the
\* index-price thread, disconnected earlier, waits to reconnect
C34_ExitedOnStopOtherReconnects ==
    /\ streams.last_exit = "book"
    /\ streams.stop_event
    /\ streams.index = "sleep"

\* ------------------------------------------------ what the gateway fills
OrderModes == {"FOK", "FAK"}

\* the fills the gateway can report for an accepted buy of contracts at the
\* limit price: a fill-or-kill order is matched whole, a fill-and-kill order
\* for whatever quantity the book offers at the limit
GatewayFills(order_mode, contracts, price) ==
    {[size_matched |-> n, price |-> price] :
        n \in (IF order_mode = "FOK" THEN {contracts} ELSE 1..contracts)}

\* C35: the fill place_order records for an accepted order has the quantity
\* and the cost of the fill the gateway reports, in either order mode
C35_FillStep ==
    Len(tracker'.open_positions) = Len(tracker.open_positions) + 1 =>
        LET position  == tracker'.open_positions[Len(tracker'.open_positions)]
            contracts == contracts_for(position.price)
        IN  \A order_mode \in OrderModes :
            \A fill \in GatewayFills(order_mode, contracts, position.price) :
                position.cost
                  = RoundToTick(FMul(FRound(fill.size_matched * One, 1), fill.price))

C35_RecordedFillIsReportedFill == [][C35_FillStep]_vars

\* C36: of two calls of the locked redeem paths (redeem_specific,
\* redeemall's redeem_position) for one market, the one that takes the lock
\* after the other's transaction has confirmed submits no transaction
C36_SubmitStep ==
    \A p \in AutoProcs \cup {BatchProc} :
        (~proc[p].sent /\ proc'[p].sent) => ~redeemed[proc[p].market]

C36_NoSubmissionAfterConfirmed == [][C36_SubmitStep]_vars

\* C37: the transaction of every attempt of redeem_specific is built from the
\* nonce and the gas price read in that attempt, after the attempt before it
\* failed, never from the values read for an earlier attempt
C37_SendStep ==
    \A p \in AutoProcs :
        (proc[p].pc = "rs_send" /\ proc'[p].pc = "rs_wait") =>
            proc[p].nonce_attempt = proc[p].attempt

C37_RetryReadsNonceAgain == [][C37_SendStep]_vars

\* a second attempt has sent its transaction with the values it read
C37_RetrySent ==
    \E p \in AutoProcs :
        /\ proc[p].pc = "rs_wait"
        /\ proc[p].attempt = 2
        /\ proc[p].nonce_attempt = 2

\* C38: whenever is_fresh() holds, and so whenever place_order records a buy,
\* the quoted ask of each side was set by the current market's order-book
\* stream less than PRICE_STALE_THRESHOLD ago, right after switch_market too
C38_FreshMeansQuoted == is_fresh(price_state) => price_state.quotes = "fresh"

C38_BuyStep == next_order' = next_order + 1 => price_state.quotes = "fresh"

C38_OrdersUseFreshQuotes == [](C38_FreshMeansQuoted) /\ [][C38_BuyStep]_vars

\* C39: at most one thread per stream is live: a thread of an earlier start
\* is there only while its flag tells it to stop, so that it leaves its loop
\* at the next test and never reconnects or publishes again
C39_OneLiveThreadPerStream ==
    \A k \in Streams : ~StopFlag(k) => streams[OldOf(k)] = {}

\* ------------------------------------------------ one trade.py at a time
\* os.kill(pid, 0): the process exists
is_pid_running(ps, pid) == ps.at[pid] \in {"checked", "running"}

\* check_already_running: the file exists and its pid is running
check_already_running(ps) == ps.file # 0 /\ is_pid_running(ps, ps.file)

\* main() up to save_pid: sys.exit(1) when another instance is running,
\* else a stale file is removed and main goes on
PidCheck(p) ==
    /\ pids.at[p] = "off"
    /\ pids' = IF check_already_running(pids)
               THEN [pids EXCEPT !.at[p] = "dead"]
               ELSE [pids EXCEPT !.at[p] = "checked", !.file = 0]
    /\ UNCHANGED <<tracker, mainVars, timeVars, feedVars, outerVars, streamVars, chainVars,
                   lockVars, proc>>

\* save_pid: the file is replaced by one holding the own pid
PidSave(p) ==
    /\ pids.at[p] = "checked"
    /\ pids' = [pids EXCEPT !.at[p] = "running", !.file = p]
    /\ UNCHANGED <<tracker, mainVars, timeVars, feedVars, outerVars, streamVars, chainVars,
                   lockVars, proc>>

\* the process ends: remove_pid, registered with atexit, removes the file
PidExit(p) ==
    /\ pids.at[p] = "running"
    /\ pids' = [pids EXCEPT !.at[p] = "dead", !.file = 0]
    /\ UNCHANGED <<tracker, mainVars, timeVars, feedVars, outerVars, streamVars, chainVars,
                   lockVars, proc>>

\* the process is killed and nothing of it runs any more: the file stays
PidKilled(p) ==
    /\ pids.at[p] = "running"
    /\ pids' = [pids EXCEPT !.at[p] = "dead"]
    /\ UNCHANGED <<tracker, mainVars, timeVars, feedVars, outerVars, streamVars, chainVars,
                   lockVars, proc>>

\* telegram_bot.py cmd_stop: the recorded process is signalled until it is
\* gone, and the file is removed
cmd_stop ==
    /\ pids.file # 0
    /\ pids' = [pids EXCEPT !.at[pids.file] = IF is_pid_running(pids, pids.file)
                                               THEN "dead" ELSE @,
                            !.file = 0]
    /\ UNCHANGED <<tracker, mainVars, timeVars, feedVars, outerVars, streamVars, chainVars,
                   lockVars, proc>>

NextPid ==
    \/ \E p \in TradePids : PidCheck(p)
    \/ \E p \in TradePids : PidSave(p)
    \/ \E p \in TradePids : PidExit(p)
    \/ \E p \in TradePids : PidKilled(p)
    \/ cmd_stop

SpecPid == InitLedger /\ [][NextPid]_vars

\* C40: at most one process is past check_already_running (saving its pid or
\* in the main loop) at a time, and a start that finds the PID file of a dead
\* process goes on
C40_OneInstance ==
    Cardinality({p \in TradePids : pids.at[p] \in {"checked", "running"}}) <= 1

C40_StaleStep ==
    \A p \in TradePids :
        (pids.at[p] = "off" /\ pids'.at[p] # "off" /\ pids.file # 0
           /\ pids.at[pids.file] = "dead") => pids'.at[p] = "checked"

C40_SingleTradingLoop == [](C40_OneInstance) /\ [][C40_StaleStep]_vars

====
